---- MODULE Spec2Model ----
(***************************************************************************)
(* The page-object framework: configuration resolution and the component  *)
(* core                                                                    *)
(*   framework/core/decorators.ts     (@Component registry)                *)
(*   framework/core/BasePage.ts       (@Page, goto, initializeComponents)  *)
(*   framework/core/ComponentCollection.ts                                 *)
(*   framework/config/interpolate.ts  (environment interpolator)           *)
(*   framework/config/loader.ts       (ConfigLoader: merge, resolve,       *)
(*                                     isEnabledSync)                      *)
(*   framework/config/schemas.ts      (SiteConfigSchema, zod 3)            *)
(*                                                                         *)
(* JSON values are tagged records; a string is a sequence of one-character *)
(* strings, so that the token pattern is matched character by character;   *)
(* an object is a sequence of entries [k, v] in insertion order, which is  *)
(* the order Object.entries walks.  Keys of configuration files are not    *)
(* integer-like, so insertion order is enumeration order.                  *)
(***************************************************************************)
EXTENDS Integers, Sequences, FiniteSets, TLC

VARIABLES
    files,      \* the four layer files: absent, malformed, or a parsed object
    environ,    \* process.env: variable name -> set / unset and its value
    input,      \* the argument handed to a pure function (a template tree,
                \* a sequence of layers, a candidate configuration)
    call,       \* the last call made: operation and arguments
    outcome,    \* what that call returned or threw
    reads,      \* the files that call read, in order
    metadata,   \* the reflect-metadata store: component metadata maps and
                \* page routes, by the class they are defined on
    heap,       \* the objects constructed so far (pages, components,
                \* collections), by reference
    dom,        \* the browser: how many elements the repeated region holds,
                \* whether navigation succeeds
    log,        \* the calls issued so far, to the registry and to the
                \* automation engine, in order
    task        \* the asynchronous operation in flight (goto, iteration)

core == <<metadata, heap, dom, log, task>>

vars == <<files, environ, input, call, outcome, reads, metadata, heap, dom, log, task>>

\* nothing of the component core is in play
NoCore ==
    /\ metadata = <<>>
    /\ heap = <<>>
    /\ dom = <<>>
    /\ log = <<>>
    /\ task = <<>>

(***************************************************************************)
(* JSON values                                                             *)
(***************************************************************************)
JStr(s)  == [t |-> "str", s |-> s]
JNum(n)  == [t |-> "num", n |-> n]
JBool(b) == [t |-> "bool", b |-> b]
JNull    == [t |-> "null"]
JArr(a)  == [t |-> "arr", items |-> a]
JObj(e)  == [t |-> "obj", entries |-> e]

Entry(k, v) == [k |-> k, v |-> v]

\* value !== null && typeof value === 'object' && !Array.isArray(value)
IsPlainObject(v) == v.t = "obj"

Keys(o) == {o.entries[i].k : i \in 1..Len(o.entries)}

HasKey(o, k) == k \in Keys(o)

\* o[k] for a key that o has
Get(o, k) == o.entries[CHOOSE i \in 1..Len(o.entries) : o.entries[i].k = k].v

\* result[key] = value on an entry list: an existing key keeps its place,
\* a new key goes last
SetKey(es, k, v) ==
    IF \E i \in 1..Len(es) : es[i].k = k
    THEN [i \in 1..Len(es) |-> IF es[i].k = k THEN Entry(k, v) ELSE es[i]]
    ELSE Append(es, Entry(k, v))

\* String(i) for the indices Object.entries gives a string or an array
IndexKey(i) ==
    <<"0", "1", "2", "3", "4", "5", "6", "7", "8", "9", "10", "11", "12",
      "13", "14", "15", "16", "17", "18", "19", "20", "21", "22", "23">>[i + 1]

(***************************************************************************)
(* Results of calls: a value returned, or an error thrown                  *)
(***************************************************************************)
Ok(v)      == [ok |-> TRUE, val |-> v]
Thrown(e)  == [ok |-> FALSE, error |-> e]

(***************************************************************************)
(* interpolate.ts                                                          *)
(***************************************************************************)
\* new MissingEnvVarError(varName): the message names varName
MissingEnvVarError(varName) ==
    [name |-> "MissingEnvVarError", names |-> varName]

\* process.env[varName]
ProcessEnv(varName) ==
    IF varName \in DOMAIN environ THEN environ[varName] ELSE [set |-> FALSE]

\* first index >= i that ends a run of [^}:]
RECURSIVE NameEnd(_, _)
NameEnd(s, i) ==
    IF i > Len(s) \/ s[i] \in {"}", ":"} THEN i ELSE NameEnd(s, i + 1)

\* first index >= i that ends a run of [^}]
RECURSIVE DefaultEnd(_, _)
DefaultEnd(s, i) ==
    IF i > Len(s) \/ s[i] = "}" THEN i ELSE DefaultEnd(s, i + 1)

NoMatch == [matched |-> FALSE]

\* ENV_VAR_PATTERN = /\$\{([^}:]+)(?::-([^}]*))?\}/ tried at index i of s.
\* The name run is greedy; no shorter name can match, because the
\* character after a shorter name is itself a name character.
ENV_VAR_PATTERN(s, i) ==
    IF ~(i + 1 <= Len(s) /\ s[i] = "$" /\ s[i + 1] = "{") THEN NoMatch
    ELSE LET j == NameEnd(s, i + 2) IN
         IF j = i + 2 \/ j > Len(s) THEN NoMatch
         ELSE IF s[j] = "}"
              THEN [matched |-> TRUE, varName |-> SubSeq(s, i + 2, j - 1),
                    hasDefault |-> FALSE, defaultValue |-> <<>>, last |-> j]
              ELSE IF ~(j + 1 <= Len(s) /\ s[j + 1] = "-") THEN NoMatch
                   ELSE LET m == DefaultEnd(s, j + 2) IN
                        IF m > Len(s) THEN NoMatch
                        ELSE [matched |-> TRUE,
                              varName |-> SubSeq(s, i + 2, j - 1),
                              hasDefault |-> TRUE,
                              defaultValue |-> SubSeq(s, j + 2, m - 1),
                              last |-> m]

\* A replacer that answers the default before looking at the environment.
ReplacerDefaultFirst(m) ==
    IF m.hasDefault THEN Ok(m.defaultValue)
    ELSE IF ProcessEnv(m.varName).set THEN Ok(ProcessEnv(m.varName).val)
    ELSE Thrown(MissingEnvVarError(m.varName))

\* A replacer that answers the empty string for an unset required variable.
ReplacerEmptyForMissing(m) ==
    IF ProcessEnv(m.varName).set THEN Ok(ProcessEnv(m.varName).val)
    ELSE IF m.hasDefault THEN Ok(m.defaultValue)
    ELSE Ok(<<>>)

\* the callback given to value.replace: (match, varName, defaultValue) => ...
Replacer(m) ==
    IF ProcessEnv(m.varName).set THEN Ok(ProcessEnv(m.varName).val)
    ELSE IF m.hasDefault THEN Ok(m.defaultValue)
    ELSE Thrown(MissingEnvVarError(m.varName))

\* value.replace(ENV_VAR_PATTERN, callback) with the g flag: leftmost
\* matches, non-overlapping, the replacement text is not scanned again;
\* a throw in the callback ends the replace
RECURSIVE ReplaceFrom(_, _, _)
ReplaceFrom(s, i, acc) ==
    IF i > Len(s) THEN Ok(acc)
    ELSE LET m == ENV_VAR_PATTERN(s, i) IN
         IF m.matched
         THEN LET r == Replacer(m) IN
              IF r.ok THEN ReplaceFrom(s, m.last + 1, acc \o r.val) ELSE r
         ELSE ReplaceFrom(s, i + 1, Append(acc, s[i]))

interpolateString(value) == ReplaceFrom(value, 1, <<>>)

RECURSIVE interpolateEnvVars(_)
RECURSIVE InterpolateItems(_, _, _)
RECURSIVE InterpolateEntries(_, _, _)

\* obj.map((item) => interpolateEnvVars(item))
InterpolateItems(items, i, acc) ==
    IF i > Len(items) THEN Ok(JArr(acc))
    ELSE LET r == interpolateEnvVars(items[i]) IN
         IF r.ok THEN InterpolateItems(items, i + 1, Append(acc, r.val)) ELSE r

\* for (const [key, value] of Object.entries(obj)) result[key] = ...
InterpolateEntries(es, i, acc) ==
    IF i > Len(es) THEN Ok(JObj(acc))
    ELSE LET r == interpolateEnvVars(es[i].v) IN
         IF r.ok THEN InterpolateEntries(es, i + 1, SetKey(acc, es[i].k, r.val))
         ELSE r

interpolateEnvVars(obj) ==
    CASE obj.t = "null" -> Ok(obj)
      [] obj.t = "str"  -> LET r == interpolateString(obj.s) IN
                           IF r.ok THEN Ok(JStr(r.val)) ELSE r
      [] obj.t = "arr"  -> InterpolateItems(obj.items, 1, <<>>)
      [] obj.t = "obj"  -> InterpolateEntries(obj.entries, 1, <<>>)
      [] OTHER          -> Ok(obj)

(***************************************************************************)
(* Inputs of the interpolator: strings written as templates, a sequence of *)
(* segments, each one literal character or one token.  RenderTemplate      *)
(* writes the template out as the characters the code receives.            *)
(***************************************************************************)
MaxSegs == 3            \* segments in a single-string input
MaxTreeSegs == 2        \* segments in each string of a nested input

Lit(c)    == [kind |-> "lit", c |-> c]
Req(n)    == [kind |-> "req", varName |-> n]
Def(n, d) == [kind |-> "def", varName |-> n, defaultValue |-> d]

VarA  == <<"A">>
VarAB == <<"A", "B">>

LitSegments == {Lit(c) : c \in {"$", "{", "}", ":", "-", "x"}}
TokenSegments ==
    {Req(VarA), Req(VarAB), Def(VarA, <<"x">>), Def(VarA, <<>>),
     Def(VarAB, <<"x", ":", "-">>)}

TemplatesOver(segs, n) == UNION {[1..k -> segs] : k \in 0..n}

TStr(segs) == [t |-> "tstr", segs |-> segs]

RenderSegment(g) ==
    CASE g.kind = "lit" -> <<g.c>>
      [] g.kind = "req" -> <<"$", "{">> \o g.varName \o <<"}">>
      [] g.kind = "def" -> <<"$", "{">> \o g.varName \o <<":", "-">>
                           \o g.defaultValue \o <<"}">>

RECURSIVE RenderTemplate(_)
RenderTemplate(segs) ==
    IF segs = <<>> THEN <<>>
    ELSE RenderSegment(Head(segs)) \o RenderTemplate(Tail(segs))

RECURSIVE Render(_)
Render(tree) ==
    CASE tree.t = "tstr" -> JStr(RenderTemplate(tree.segs))
      [] tree.t = "arr"  ->
           JArr([i \in 1..Len(tree.items) |-> Render(tree.items[i])])
      [] tree.t = "obj"  ->
           JObj([i \in 1..Len(tree.entries) |->
                   Entry(tree.entries[i].k, Render(tree.entries[i].v))])
      [] OTHER -> tree

TreeTemplates ==
    {TStr(s) : s \in TemplatesOver({Req(VarA), Req(VarAB), Def(VarA, <<"x">>)},
                                   MaxTreeSegs)}

InterpolatorInputs ==
    {TStr(s) : s \in TemplatesOver(LitSegments \cup TokenSegments, MaxSegs)}
    \cup {JArr(<<a, b>>) : a, b \in TreeTemplates}
    \cup {JObj(<<Entry("credentials", JObj(<<Entry("username", a)>>)),
                 Entry("baseUrl", b)>>) : a, b \in TreeTemplates}
    \cup {JObj(<<Entry("items", JArr(<<a, JNum(1), JNull>>)),
                 Entry("baseUrl", b)>>) : a, b \in TreeTemplates}

SetTo(v) == [set |-> TRUE, val |-> v]
Unset    == [set |-> FALSE]

InterpolatorEnvs ==
    {[n \in {VarA, VarAB} |-> IF n = VarA THEN a ELSE b] :
        a \in {Unset, SetTo(<<>>), SetTo(<<"v">>)},
        b \in {Unset, SetTo(<<"w">>)}}

NoFiles  == <<>>
NoCall   == [op |-> "none"]
NoResult == [ok |-> FALSE, error |-> [name |-> "none"]]

InitInterp ==
    /\ files = NoFiles
    /\ environ \in InterpolatorEnvs
    /\ input \in InterpolatorInputs
    /\ call = NoCall
    /\ outcome = NoResult
    /\ reads = <<>>
    /\ NoCore

\* interpolateEnvVars(obj) on the rendered input
InterpolateCall ==
    /\ call.op = "none"
    /\ call' = [op |-> "interpolateEnvVars", arg |-> Render(input)]
    /\ outcome' = interpolateEnvVars(Render(input))
    /\ UNCHANGED <<files, environ, input, reads, core>>

NextInterp == InterpolateCall

SpecInterp == InitInterp /\ [][NextInterp]_vars

(***************************************************************************)
(* What the templates mean, token by token                                 *)
(***************************************************************************)
IsToken(g) == g.kind \in {"req", "def"}

\* a required token whose variable is unset
IsMissing(g) == g.kind = "req" /\ ~ProcessEnv(g.varName).set

TokenValue(g) ==
    IF ProcessEnv(g.varName).set THEN ProcessEnv(g.varName).val
    ELSE g.defaultValue

RECURSIVE ExpectedText(_)
ExpectedText(segs) ==
    IF segs = <<>> THEN <<>>
    ELSE (IF Head(segs).kind = "lit" THEN <<Head(segs).c>>
          ELSE TokenValue(Head(segs)))
         \o ExpectedText(Tail(segs))

\* the literal characters do not themselves spell the opening of a token
NoLiteralOpen(segs) ==
    \A i \in 1..(Len(segs) - 1) : ~(segs[i] = Lit("$") /\ segs[i + 1] = Lit("{"))

\* the segments of every string of a tree, in traversal order: record keys
\* in order, sequence elements in order, left to right within a string
RECURSIVE SegsOf(_)
RECURSIVE SegsOfSeq(_)
SegsOfSeq(vs) == IF vs = <<>> THEN <<>> ELSE SegsOf(Head(vs)) \o SegsOfSeq(Tail(vs))
SegsOf(tree) ==
    CASE tree.t = "tstr" -> tree.segs
      [] tree.t = "arr"  -> SegsOfSeq(tree.items)
      [] tree.t = "obj"  ->
           SegsOfSeq([i \in 1..Len(tree.entries) |-> tree.entries[i].v])
      [] OTHER -> <<>>

FirstMissing(segs) ==
    segs[CHOOSE i \in 1..Len(segs) :
            IsMissing(segs[i]) /\ \A j \in 1..(i - 1) : ~IsMissing(segs[j])]

Interpolated == call.op = "interpolateEnvVars"

\* C5: every token of a string is replaced by the variable's value when the
\* variable is set, also when a default is given; by the default, possibly
\* empty, when it is unset and a default is given; a required token whose
\* variable is unset makes the call throw a MissingEnvVarError naming it.
C5_TokenReplacement ==
    (Interpolated /\ input.t = "tstr" /\ NoLiteralOpen(input.segs)) =>
        IF \E i \in 1..Len(input.segs) : IsMissing(input.segs[i])
        THEN /\ ~outcome.ok
             /\ outcome.error.name = "MissingEnvVarError"
             /\ \E i \in 1..Len(input.segs) :
                    /\ IsMissing(input.segs[i])
                    /\ outcome.error.names = input.segs[i].varName
        ELSE outcome = Ok(JStr(ExpectedText(input.segs)))

\* a default-form token whose variable is set to something other than the
\* default was replaced by the variable's value
C5_Witness ==
    /\ Interpolated /\ input.t = "tstr" /\ NoLiteralOpen(input.segs)
    /\ Len(input.segs) = 3
    /\ \E i \in 1..3 :
          /\ input.segs[i].kind = "def"
          /\ ProcessEnv(input.segs[i].varName).set
          /\ ProcessEnv(input.segs[i].varName).val # input.segs[i].defaultValue
    /\ \E i \in 1..3 :
          /\ input.segs[i].kind = "def"
          /\ ~ProcessEnv(input.segs[i].varName).set
    /\ outcome.ok

\* C6: when required tokens are unset the call throws, naming the first of
\* them in traversal order; nothing is returned, so there is no partly
\* interpolated result and no empty string in the token's place.
C6_FailFast ==
    (/\ Interpolated
     /\ NoLiteralOpen(SegsOf(input))
     /\ \E i \in 1..Len(SegsOf(input)) : IsMissing(SegsOf(input)[i]))
    => outcome = Thrown(MissingEnvVarError(FirstMissing(SegsOf(input)).varName))

\* two unset required tokens with different names, in different strings of
\* a nested input, the later one preceded by a resolvable token
C6_Witness ==
    /\ Interpolated
    /\ input.t = "obj"
    /\ LET segs == SegsOf(input) IN
       /\ \E i, j \in 1..Len(segs) :
             /\ i < j
             /\ IsMissing(segs[i]) /\ IsMissing(segs[j])
             /\ segs[i].varName # segs[j].varName
             /\ outcome = Thrown(MissingEnvVarError(segs[i].varName))
             /\ \A h \in 1..(i - 1) : ~IsMissing(segs[h])
       /\ ~IsMissing(segs[1])
    /\ input.entries[1].v.t = "obj"

(***************************************************************************)
(* loader.ts: deepMerge                                                    *)
(***************************************************************************)
\* Object.entries(v) for the values deepMerge can be handed: an object's
\* own entries, an array's elements and a string's characters under their
\* indices, nothing for a number or a boolean
ObjectEntries(v) ==
    CASE v.t = "obj" -> v.entries
      [] v.t = "arr" -> [i \in 1..Len(v.items) |-> Entry(IndexKey(i - 1), v.items[i])]
      [] v.t = "str" -> [i \in 1..Len(v.s) |-> Entry(IndexKey(i - 1), JStr(<<v.s[i]>>))]
      [] OTHER       -> <<>>

\* result[key] ?? {} : the empty object for a missing key and for null
ExistingValue(result, key) ==
    IF \E i \in 1..Len(result) : result[i].k = key
    THEN LET v == Get(JObj(result), key) IN
         IF v.t = "null" THEN JObj(<<>>) ELSE v
    ELSE JObj(<<>>)

\* Object.entries of each argument in turn, as the two nested loops visit them
RECURSIVE AllEntries(_)
AllEntries(objects) ==
    IF objects = <<>> THEN <<>>
    ELSE ObjectEntries(Head(objects)) \o AllEntries(Tail(objects))

RECURSIVE deepMerge(_)
RECURSIVE MergeLoop(_, _, _)

\* a merge that concatenates arrays instead of replacing them
MergeStepConcatArrays(result, key, value) ==
    IF IsPlainObject(value)
    THEN SetKey(result, key, deepMerge(<<ExistingValue(result, key), value>>))
    ELSE IF value.t = "arr" /\ ExistingValue(result, key).t = "arr"
         THEN SetKey(result, key,
                     JArr(ExistingValue(result, key).items \o value.items))
         ELSE SetKey(result, key, value)

\* a merge in which the first layer to define a scalar key keeps it
MergeStepFirstWins(result, key, value) ==
    IF IsPlainObject(value)
    THEN SetKey(result, key, deepMerge(<<ExistingValue(result, key), value>>))
    ELSE IF \E i \in 1..Len(result) : result[i].k = key
         THEN result
         ELSE SetKey(result, key, value)

\* the body of the inner loop, for one [key, value]
MergeStep(result, key, value) ==
    IF IsPlainObject(value)
    THEN SetKey(result, key, deepMerge(<<ExistingValue(result, key), value>>))
    ELSE SetKey(result, key, value)

MergeLoop(es, i, result) ==
    IF i > Len(es) THEN result
    ELSE MergeLoop(es, i + 1, MergeStep(result, es[i].k, es[i].v))

deepMerge(objects) == JObj(MergeLoop(AllEntries(objects), 1, <<>>))

(***************************************************************************)
(* Inputs of the merge: three layers.  Layer i writes the number i, a      *)
(* string of i characters and an array of 4 - i elements, so that the      *)
(* merged value shows which layer it came from.  Key t may hold an object  *)
(* with sub-keys a and b, and a may hold objects nested under key c.       *)
(***************************************************************************)
MaxMergeDepth == 1      \* levels of objects nested under t.a

Absent == [t |-> "absent"]
OptEntry(k, v) == IF v = Absent THEN <<>> ELSE <<Entry(k, v)>>

NonObjectValues(i) ==
    {JNum(i), JStr([j \in 1..i |-> "s"]), JArr([j \in 1..(4 - i) |-> JNum(i)])}

RECURSIVE NestedObjects(_, _)
NestedObjects(i, d) ==
    IF d = 0 THEN {}
    ELSE {JObj(<<>>)}
         \cup {JObj(<<Entry("c", x)>>) :
                 x \in NonObjectValues(i) \cup NestedObjects(i, d - 1)}

MergeLayers(i) ==
    LET aVals == NonObjectValues(i) \cup NestedObjects(i, MaxMergeDepth)
        tObjs == {JObj(OptEntry("a", a) \o OptEntry("b", b)) :
                     a \in {Absent} \cup aVals, b \in {Absent, JNum(i)}}
        tVals == NonObjectValues(i) \cup tObjs
    IN  {JObj(OptEntry("k", k) \o OptEntry("t", t)) :
            k \in {Absent, JNum(i)}, t \in {Absent} \cup tVals}

InitMerge ==
    /\ files = NoFiles
    /\ environ = <<>>
    /\ input \in {<<a, b, c>> :
                    a \in MergeLayers(1), b \in MergeLayers(2), c \in MergeLayers(3)}
    /\ call = NoCall
    /\ outcome = NoResult
    /\ reads = <<>>
    /\ NoCore

\* this.deepMerge(a, b, c)
MergeCall ==
    /\ call.op = "none"
    /\ call' = [op |-> "deepMerge", arg |-> input]
    /\ outcome' = Ok(deepMerge(input))
    /\ UNCHANGED <<files, environ, input, reads, core>>

NextMerge == MergeCall

SpecMerge == InitMerge /\ [][NextMerge]_vars

(***************************************************************************)
(* What the merge is to give                                               *)
(***************************************************************************)
IsScalar(v) == v.t \in {"num", "str", "bool", "null"}

\* the values the layers that define k hold at k, lowest layer first
RECURSIVE ValuesAt(_, _)
ValuesAt(objs, k) ==
    IF objs = <<>> THEN <<>>
    ELSE (IF HasKey(Head(objs), k) THEN <<Get(Head(objs), k)>> ELSE <<>>)
         \o ValuesAt(Tail(objs), k)

AllKeys(objs) == UNION {Keys(objs[i]) : i \in 1..Len(objs)}

\* m gives every scalar key the value of the last of objs that defines it,
\* and so does every object of m that all defining layers hold as an object
RECURSIVE Precedence(_, _)
Precedence(objs, m) ==
    \A k \in AllKeys(objs) :
        LET vs == ValuesAt(objs, k) IN
        /\ (\A i \in 1..Len(vs) : IsScalar(vs[i])) =>
               (HasKey(m, k) /\ Get(m, k) = vs[Len(vs)])
        /\ (\A i \in 1..Len(vs) : IsPlainObject(vs[i])) =>
               (HasKey(m, k) /\ IsPlainObject(Get(m, k)) /\ Precedence(vs, Get(m, k)))

Merged == call.op = "deepMerge"

\* C7: merging layers A, B, C left to right, a key that holds scalars in the
\* layers defining it gets C's value if C defines it, else B's, else A's;
\* the same for keys inside objects that several layers define.
C7_MergePrecedence == Merged => Precedence(input, outcome.val)

\* all three layers hold an object at t; b is defined by A and B only, so B
\* wins there; k is defined by all three, so C wins; t.a.c is defined by A
\* and C
C7_Witness ==
    /\ Merged
    /\ input[1] = JObj(<<Entry("k", JNum(1)),
                         Entry("t", JObj(<<Entry("a", JObj(<<Entry("c", JNum(1))>>)),
                                           Entry("b", JNum(1))>>))>>)
    /\ input[2] = JObj(<<Entry("k", JNum(2)),
                         Entry("t", JObj(<<Entry("a", JObj(<<>>)),
                                           Entry("b", JNum(2))>>))>>)
    /\ input[3] = JObj(<<Entry("k", JNum(3)),
                         Entry("t", JObj(<<Entry("a",
                                JObj(<<Entry("c", JStr(<<"s", "s", "s">>))>>))>>))>>)
    /\ Get(outcome.val, "k") = JNum(3)
    /\ Get(Get(outcome.val, "t"), "b") = JNum(2)
    /\ Get(Get(Get(outcome.val, "t"), "a"), "c") = JStr(<<"s", "s", "s">>)

\* The merge rule of two objects: a key both hold as plain objects is merged
\* by the same rule, any other key the later object holds takes the later
\* value whole, the rest keep the earlier value.
RECURSIVE RuleMerge(_, _)
RuleMerge(x, y) ==
    JObj([i \in 1..Len(x.entries) |->
            LET k == x.entries[i].k
                xv == x.entries[i].v IN
            IF ~HasKey(y, k) THEN Entry(k, xv)
            ELSE IF IsPlainObject(xv) /\ IsPlainObject(Get(y, k))
                 THEN Entry(k, RuleMerge(xv, Get(y, k)))
                 ELSE Entry(k, Get(y, k))]
         \o SelectSeq(y.entries, LAMBDA e : ~HasKey(x, e.k)))

\* somewhere inside, the earlier object holds a string or an array where
\* the later one holds a plain object
RECURSIVE ObjectOverIndexed(_, _)
ObjectOverIndexed(x, y) ==
    \E k \in Keys(x) \cap Keys(y) :
        \/ Get(x, k).t \in {"str", "arr"} /\ IsPlainObject(Get(y, k))
        \/ /\ IsPlainObject(Get(x, k)) /\ IsPlainObject(Get(y, k))
           /\ ObjectOverIndexed(Get(x, k), Get(y, k))

\* the merge of two layers: the first of the three is empty
MergedTwo == Merged /\ input[1] = JObj(<<>>)

\* C8: when two layers both hold a plain object at a key, the merged object
\* has every sub-key of both, the later layer winning each conflict, at
\* every depth; an array in the later layer is the merged value, whole.
C8_DeepMergeArrayReplace ==
    MergedTwo =>
        \A k \in Keys(input[3]) :
            /\ (HasKey(input[2], k) /\ IsPlainObject(Get(input[2], k))
                  /\ IsPlainObject(Get(input[3], k)))
               => Get(outcome.val, k) = RuleMerge(Get(input[2], k), Get(input[3], k))
            /\ Get(input[3], k).t = "arr" => Get(outcome.val, k) = Get(input[3], k)

\* the same, for layers in which no plain object meets a string or an array
\* of the earlier layer
C8_ExceptObjectOverIndexed ==
    (MergedTwo /\ ~ObjectOverIndexed(input[2], input[3])) =>
        outcome.val = RuleMerge(input[2], input[3])

(***************************************************************************)
(* The strings the configuration uses, character by character              *)
(***************************************************************************)
HTTP  == <<"h", "t", "t", "p">>
HTTPS == <<"h", "t", "t", "p", "s">>
OFF == <<"o", "f", "f">>
ON  == <<"o", "n">>
ONLY_ON_FAILURE   == <<"o", "n", "l", "y", "-", "o", "n", "-", "f", "a", "i", "l", "u", "r", "e">>
RETAIN_ON_FAILURE == <<"r", "e", "t", "a", "i", "n", "-", "o", "n", "-", "f", "a", "i", "l", "u", "r", "e">>

(***************************************************************************)
(* schemas.ts: SiteConfigSchema, read with zod 3: an object schema visits  *)
(* its shape's keys in order, collects every issue, drops the keys the     *)
(* shape does not name and leaves out an optional key that is absent.      *)
(***************************************************************************)
Issue(path, code) == [path |-> path, code |-> code]
Parsed(issues, val) == [issues |-> issues, val |-> val]

\* data[key], Absent standing for undefined
Field(v, k) == IF HasKey(v, k) THEN Get(v, k) ELSE Absent

Letters ==
    {"a", "b", "c", "d", "e", "f", "g", "h", "i", "j", "k", "l", "m", "n", "o",
     "p", "q", "r", "s", "t", "u", "v", "w", "x", "y", "z"}
SchemeChars == Letters \cup {"0", "1", "2", "3", "4", "5", "6", "7", "8", "9",
                             "+", "-", "."}
SpecialSchemes == {HTTP, HTTPS, <<"f", "t", "p">>, <<"w", "s">>, <<"w", "s", "s">>}

RECURSIVE SkipSlashes(_, _)
SkipSlashes(s, i) ==
    IF i <= Len(s) /\ s[i] \in {"/", "\\"} THEN SkipSlashes(s, i + 1) ELSE i

\* new URL(s) does not throw: s opens with a scheme and a colon, and a
\* special scheme is followed by a host
IsUrl(s) ==
    \E i \in 2..Len(s) :
        /\ s[i] = ":"
        /\ \A j \in 1..(i - 1) : s[j] # ":"
        /\ s[1] \in Letters
        /\ \A j \in 2..(i - 1) : s[j] \in SchemeChars
        /\ SubSeq(s, 1, i - 1) \in SpecialSchemes => SkipSlashes(s, i + 1) <= Len(s)

\* z.string()
ZString(v, path) ==
    IF v = Absent \/ v.t # "str" THEN Parsed(<<Issue(path, "invalid_type")>>, Absent)
    ELSE Parsed(<<>>, v)

\* z.string().url()
ZUrl(v, path) ==
    IF v = Absent \/ v.t # "str" THEN Parsed(<<Issue(path, "invalid_type")>>, Absent)
    ELSE IF ~IsUrl(v.s) THEN Parsed(<<Issue(path, "invalid_string")>>, Absent)
    ELSE Parsed(<<>>, v)

\* z.boolean()
ZBoolean(v, path) ==
    IF v = Absent \/ v.t # "bool" THEN Parsed(<<Issue(path, "invalid_type")>>, Absent)
    ELSE Parsed(<<>>, v)

\* a number schema that also takes zero
ZNonNegative(v, path) ==
    IF v = Absent \/ v.t # "num" THEN Parsed(<<Issue(path, "invalid_type")>>, Absent)
    ELSE IF v.n < 0 THEN Parsed(<<Issue(path, "too_small")>>, Absent)
    ELSE Parsed(<<>>, v)

\* z.number().positive()
ZPositive(v, path) ==
    IF v = Absent \/ v.t # "num" THEN Parsed(<<Issue(path, "invalid_type")>>, Absent)
    ELSE IF v.n <= 0 THEN Parsed(<<Issue(path, "too_small")>>, Absent)
    ELSE Parsed(<<>>, v)

\* z.enum(values)
ZEnum(values, v, path) ==
    IF v = Absent \/ v.t # "str" THEN Parsed(<<Issue(path, "invalid_type")>>, Absent)
    ELSE IF v.s \notin values THEN Parsed(<<Issue(path, "invalid_enum_value")>>, Absent)
    ELSE Parsed(<<>>, v)

ScreenshotModeSchema(v, path) == ZEnum({OFF, ON, ONLY_ON_FAILURE}, v, path)
TraceModeSchema(v, path)      == ZEnum({OFF, ON, RETAIN_ON_FAILURE}, v, path)
VideoModeSchema(v, path)      == ZEnum({OFF, ON, RETAIN_ON_FAILURE}, v, path)

\* what z.object makes of its fields' results: all issues, in shape order,
\* and the object of the values that are present
RECURSIVE FieldIssues(_)
FieldIssues(rs) ==
    IF rs = <<>> THEN <<>> ELSE Head(rs).r.issues \o FieldIssues(Tail(rs))

RECURSIVE FieldEntries(_)
FieldEntries(rs) ==
    IF rs = <<>> THEN <<>>
    ELSE OptEntry(Head(rs).k, Head(rs).r.val) \o FieldEntries(Tail(rs))

ZObject(rs) ==
    IF FieldIssues(rs) = <<>> THEN Parsed(<<>>, JObj(FieldEntries(rs)))
    ELSE Parsed(FieldIssues(rs), Absent)

FieldResult(k, r) == [k |-> k, r |-> r]

NotAnObject(v) == v = Absent \/ v.t # "obj"

DiagnosticsConfigSchema(v, path) ==
    IF NotAnObject(v) THEN Parsed(<<Issue(path, "invalid_type")>>, Absent)
    ELSE ZObject(<<
        FieldResult("screenshot",
            ScreenshotModeSchema(Field(v, "screenshot"), path \o <<"screenshot">>)),
        FieldResult("trace", TraceModeSchema(Field(v, "trace"), path \o <<"trace">>)),
        FieldResult("video", VideoModeSchema(Field(v, "video"), path \o <<"video">>))>>)

TimeoutsConfigSchema(v, path) ==
    IF NotAnObject(v) THEN Parsed(<<Issue(path, "invalid_type")>>, Absent)
    ELSE ZObject(<<
        FieldResult("navigation",
            ZPositive(Field(v, "navigation"), path \o <<"navigation">>)),
        FieldResult("action", ZPositive(Field(v, "action"), path \o <<"action">>)),
        FieldResult("assertion",
            ZPositive(Field(v, "assertion"), path \o <<"assertion">>))>>)

CredentialsConfigSchema(v, path) ==
    IF NotAnObject(v) THEN Parsed(<<Issue(path, "invalid_type")>>, Absent)
    ELSE ZObject(<<
        FieldResult("username", ZString(Field(v, "username"), path \o <<"username">>)),
        FieldResult("password", ZString(Field(v, "password"), path \o <<"password">>))>>)

NothingParsed == Parsed(<<>>, Absent)

SiteConfigSchema(v) ==
    IF NotAnObject(v) THEN Parsed(<<Issue(<<>>, "invalid_type")>>, Absent)
    ELSE ZObject(<<
        FieldResult("enabled",
            IF Field(v, "enabled") = Absent THEN NothingParsed
            ELSE ZBoolean(Field(v, "enabled"), <<"enabled">>)),
        FieldResult("baseUrl", ZUrl(Field(v, "baseUrl"), <<"baseUrl">>)),
        FieldResult("credentials",
            IF Field(v, "credentials") = Absent THEN NothingParsed
            ELSE CredentialsConfigSchema(Field(v, "credentials"), <<"credentials">>)),
        FieldResult("timeouts",
            TimeoutsConfigSchema(Field(v, "timeouts"), <<"timeouts">>)),
        FieldResult("diagnostics",
            IF Field(v, "diagnostics") = Absent THEN NothingParsed
            ELSE DiagnosticsConfigSchema(Field(v, "diagnostics"), <<"diagnostics">>))>>)

ZodError(issues) == [name |-> "ZodError", issues |-> issues]

\* a parse that checks nothing and hands the value back
ParseUnchecked(data) == Ok(data)

\* SiteConfigSchema.parse(data)
SchemaParse(data) ==
    LET r == SiteConfigSchema(data) IN
    IF r.issues = <<>> THEN Ok(r.val) ELSE Thrown(ZodError(r.issues))

(***************************************************************************)
(* Inputs of the validator: candidate configurations, each field absent,   *)
(* well-formed or ill-formed in one of the ways the schema tells apart     *)
(***************************************************************************)
URL_X     == <<"h", "t", "t", "p", "s", ":", "/", "/", "x", ".", "c", "o", "m">>
NOT_A_URL == <<"n", "o", "t", "-", "a", "-", "u", "r", "l">>
USER      == <<"u", "s", "e", "r">>
PASS      == <<"p", "a", "s", "s">>

CandidateTimeouts ==
    {Absent, JNum(5)}
    \cup {JObj(OptEntry("navigation", n) \o OptEntry("action", a)
               \o OptEntry("assertion", s)) :
            n \in {Absent, JNum(-1), JNum(0), JNum(5), JStr(<<"5">>)},
            a \in {JNum(0), JNum(5)},
            s \in {JNum(-1), JNum(5)}}

CandidateDiagnostics ==
    {Absent}
    \cup {JObj(OptEntry("screenshot", sc) \o OptEntry("trace", tr)
               \o OptEntry("video", vi)) :
            sc \in {Absent, JStr(OFF), JStr(ONLY_ON_FAILURE), JStr(RETAIN_ON_FAILURE)},
            tr \in {JStr(RETAIN_ON_FAILURE), JStr(ONLY_ON_FAILURE)},
            vi \in {JStr(OFF), JStr(<<"x">>)}}

CandidateCredentials ==
    {Absent,
     JObj(<<Entry("username", JStr(USER)), Entry("password", JStr(PASS))>>),
     JObj(<<Entry("username", JStr(USER))>>)}

Candidates ==
    {JObj(OptEntry("enabled", en) \o OptEntry("baseUrl", bu)
          \o OptEntry("credentials", cr) \o OptEntry("timeouts", ti)
          \o OptEntry("diagnostics", di) \o OptEntry("browsers", br)) :
        en \in {Absent, JBool(FALSE), JStr(ON)},
        bu \in {Absent, JStr(URL_X), JStr(NOT_A_URL), JNum(1)},
        cr \in CandidateCredentials,
        ti \in CandidateTimeouts,
        di \in CandidateDiagnostics,
        br \in {Absent, JArr(<<JStr(<<"w">>)>>)}}

InitValidate ==
    /\ files = NoFiles
    /\ environ = <<>>
    /\ input \in Candidates
    /\ call = NoCall
    /\ outcome = NoResult
    /\ reads = <<>>
    /\ NoCore

\* SiteConfigSchema.parse(candidate)
ValidateCall ==
    /\ call.op = "none"
    /\ call' = [op |-> "parse", arg |-> input]
    /\ outcome' = SchemaParse(input)
    /\ UNCHANGED <<files, environ, input, reads, core>>

NextValidate == ValidateCall

SpecValidate == InitValidate /\ [][NextValidate]_vars

(***************************************************************************)
(* The Site Configuration shape, field by field                            *)
(***************************************************************************)
TimeoutFields == {"navigation", "action", "assertion"}
DiagnosticsFields == {"screenshot", "trace", "video"}

ModesOf(f) ==
    IF f = "screenshot" THEN {OFF, ON, ONLY_ON_FAILURE} ELSE {OFF, ON, RETAIN_ON_FAILURE}

IsObjectAt(c, k) == HasKey(c, k) /\ Get(c, k).t = "obj"

BaseUrlOk(c) ==
    HasKey(c, "baseUrl") /\ Get(c, "baseUrl").t = "str" /\ IsUrl(Get(c, "baseUrl").s)

TimeoutsOk(c) ==
    /\ IsObjectAt(c, "timeouts")
    /\ \A f \in TimeoutFields :
          LET v == Field(Get(c, "timeouts"), f) IN
          v # Absent /\ v.t = "num" /\ v.n > 0

CredentialsOk(c) ==
    HasKey(c, "credentials") =>
        /\ IsObjectAt(c, "credentials")
        /\ \A f \in {"username", "password"} :
              LET v == Field(Get(c, "credentials"), f) IN v # Absent /\ v.t = "str"

DiagnosticsOk(c) ==
    HasKey(c, "diagnostics") =>
        /\ IsObjectAt(c, "diagnostics")
        /\ \A f \in DiagnosticsFields :
              LET v == Field(Get(c, "diagnostics"), f) IN
              v # Absent /\ v.t = "str" /\ v.s \in ModesOf(f)

EnabledOk(c) == HasKey(c, "enabled") => Get(c, "enabled").t = "bool"

ShapeOk(c) ==
    /\ c.t = "obj"
    /\ EnabledOk(c) /\ BaseUrlOk(c) /\ CredentialsOk(c) /\ TimeoutsOk(c)
    /\ DiagnosticsOk(c)

(***************************************************************************)
(* The violations C9 lists                                                 *)
(***************************************************************************)
MalformedBaseUrl(c) ==
    HasKey(c, "baseUrl") /\ Get(c, "baseUrl").t = "str" /\ ~IsUrl(Get(c, "baseUrl").s)

MissingBaseUrl(c) == ~HasKey(c, "baseUrl")

NonPositiveTimeout(c, f) ==
    /\ IsObjectAt(c, "timeouts")
    /\ LET v == Field(Get(c, "timeouts"), f) IN v # Absent /\ v.t = "num" /\ v.n <= 0

ModeOutsideEnum(c, f) ==
    /\ IsObjectAt(c, "diagnostics")
    /\ LET v == Field(Get(c, "diagnostics"), f) IN
       v # Absent /\ v.t = "str" /\ v.s \notin ModesOf(f)

Validated == call.op = "parse"

RejectedAt(path) ==
    /\ ~outcome.ok
    /\ outcome.error.name = "ZodError"
    /\ \E i \in 1..Len(outcome.error.issues) : outcome.error.issues[i].path = path

ListedViolationsReported ==
    /\ MalformedBaseUrl(input) => RejectedAt(<<"baseUrl">>)
    /\ MissingBaseUrl(input) => RejectedAt(<<"baseUrl">>)
    /\ \A f \in TimeoutFields :
          NonPositiveTimeout(input, f) => RejectedAt(<<"timeouts", f>>)
    /\ \A f \in DiagnosticsFields :
          ModeOutsideEnum(input, f) => RejectedAt(<<"diagnostics", f>>)

NoListedViolation(c) ==
    /\ ~MalformedBaseUrl(c) /\ ~MissingBaseUrl(c)
    /\ \A f \in TimeoutFields : ~NonPositiveTimeout(c, f)
    /\ \A f \in DiagnosticsFields : ~ModeOutsideEnum(c, f)

\* C9 as stated: validation fails with a violation at [baseUrl] for a
\* malformed or missing baseUrl, at [timeouts, f] for a timeout f that is
\* zero or negative, at [diagnostics, f] for a mode f outside its enum; and
\* a candidate with none of these violations is accepted.
C9_AsStated ==
    Validated =>
        /\ ListedViolationsReported
        /\ NoListedViolation(input) => outcome.ok

\* C9 as amended: the listed violations are reported at their paths, and a
\* candidate that violates no rule of the shape at all is accepted.
C9_ViolationPaths ==
    Validated =>
        /\ ListedViolationsReported
        /\ ShapeOk(input) => outcome.ok

\* a candidate with a malformed baseUrl, a zero action timeout and a video
\* mode outside its enum is rejected with all three paths
C9_Witness ==
    /\ Validated
    /\ MalformedBaseUrl(input)
    /\ NonPositiveTimeout(input, "action")
    /\ ModeOutsideEnum(input, "video")
    /\ RejectedAt(<<"baseUrl">>)
    /\ RejectedAt(<<"timeouts", "action">>)
    /\ RejectedAt(<<"diagnostics", "video">>)

(***************************************************************************)
(* loader.ts: the files, loadJson, resolve, isEnabledSync                  *)
(***************************************************************************)
\* path.join(this.frameworkDir, 'defaults.json')
DefaultsPath == <<"framework", "defaults.json">>
\* path.join(this.sitesDir, site, 'config.json')
SiteConfigPath(site) == <<"sites", site, "config.json">>
\* path.join(this.sitesDir, site, 'env', `${env}.json`)
EnvConfigPath(site, env) == <<"sites", site, "env", env, ".json">>
\* this.localConfigPath
LocalConfigPath == <<"local.json">>

FileAbsent    == [kind |-> "absent"]
FileMalformed == [kind |-> "malformed"]
FileJson(v)   == [kind |-> "json", value |-> v]

\* fs.readFile / fs.readFileSync: ENOENT for a path that holds no file
ReadFile(fs, filePath) ==
    IF filePath \in DOMAIN fs THEN fs[filePath] ELSE FileAbsent

\* new Error(`Site config not found: ${filePath}`)
SiteConfigNotFound(filePath) ==
    [name |-> "Error", message |-> "Site config not found", path |-> filePath]

\* the SyntaxError JSON.parse throws: its message is made from the text
\* and the position, and holds no path
NoPath == <<>>
JsonSyntaxError == [name |-> "SyntaxError", message |-> "Unexpected token", path |-> NoPath]

\* a loader for which every missing file is fatal
LoadJsonAllRequired(fs, filePath, required) ==
    LET f == ReadFile(fs, filePath) IN
    CASE f.kind = "json"      -> Ok(f.value)
      [] f.kind = "malformed" -> Thrown(JsonSyntaxError)
      [] f.kind = "absent"    -> Thrown(SiteConfigNotFound(filePath))

\* a loader that takes unparseable text for an empty layer
LoadJsonLenient(fs, filePath, required) ==
    LET f == ReadFile(fs, filePath) IN
    CASE f.kind = "json"      -> Ok(f.value)
      [] f.kind = "malformed" -> Ok(JObj(<<>>))
      [] f.kind = "absent"    ->
           IF required THEN Thrown(SiteConfigNotFound(filePath)) ELSE Ok(JObj(<<>>))

loadJson(fs, filePath, required) ==
    LET f == ReadFile(fs, filePath) IN
    CASE f.kind = "json"      -> Ok(f.value)
      [] f.kind = "malformed" -> Thrown(JsonSyntaxError)
      [] f.kind = "absent"    ->
           IF required THEN Thrown(SiteConfigNotFound(filePath)) ELSE Ok(JObj(<<>>))

\* a synchronous loader for which a file that cannot be parsed disables
LoadJsonSyncMalformedDisables(fs, filePath) ==
    LET f == ReadFile(fs, filePath) IN
    CASE f.kind = "json"      -> f.value
      [] f.kind = "malformed" -> JObj(<<Entry("enabled", JBool(FALSE))>>)
      [] f.kind = "absent"    -> JObj(<<>>)

\* try { JSON.parse(readFileSync(filePath)) } catch { return {} }
loadJsonSync(fs, filePath) ==
    LET f == ReadFile(fs, filePath) IN
    IF f.kind = "json" THEN f.value ELSE JObj(<<>>)

\* if (env): undefined and the empty string select no environment
NoEnv == ""
EnvGiven(env) == env # NoEnv

Returned(result, readPaths) == [result |-> result, reads |-> readPaths]

\* a resolve that merges the local layer below the site layer
ResolveLocalBelowSite(fs, options) ==
    LET site == options.site
        env == options.env
        defaults == loadJson(fs, DefaultsPath, FALSE)
        siteConfig == loadJson(fs, SiteConfigPath(site), TRUE)
        envConfig == IF EnvGiven(env) THEN loadJson(fs, EnvConfigPath(site, env), FALSE)
                     ELSE Ok(JObj(<<>>))
        localConfig == loadJson(fs, LocalConfigPath, FALSE)
        r1 == <<DefaultsPath>>
        r2 == Append(r1, SiteConfigPath(site))
        r3 == IF EnvGiven(env) THEN Append(r2, EnvConfigPath(site, env)) ELSE r2
        r4 == Append(r3, LocalConfigPath)
    IN  IF ~defaults.ok THEN Returned(defaults, r1)
        ELSE IF ~siteConfig.ok THEN Returned(siteConfig, r2)
        ELSE IF ~envConfig.ok THEN Returned(envConfig, r3)
        ELSE IF ~localConfig.ok THEN Returned(localConfig, r4)
        ELSE LET merged == deepMerge(<<defaults.val, localConfig.val,
                                       siteConfig.val, envConfig.val>>)
                 interpolated == interpolateEnvVars(merged)
             IN  IF ~interpolated.ok THEN Returned(interpolated, r4)
                 ELSE Returned(SchemaParse(interpolated.val), r4)

\* a resolve that interpolates each layer as it is loaded, before merging
ResolveInterpolatingLayers(fs, options) ==
    LET site == options.site
        env == options.env
        Load(filePath, required) ==
            LET loaded == loadJson(fs, filePath, required)
            IN  IF loaded.ok THEN interpolateEnvVars(loaded.val) ELSE loaded
        defaults == Load(DefaultsPath, FALSE)
        siteConfig == Load(SiteConfigPath(site), TRUE)
        envConfig == IF EnvGiven(env) THEN Load(EnvConfigPath(site, env), FALSE)
                     ELSE Ok(JObj(<<>>))
        localConfig == Load(LocalConfigPath, FALSE)
        r1 == <<DefaultsPath>>
        r2 == Append(r1, SiteConfigPath(site))
        r3 == IF EnvGiven(env) THEN Append(r2, EnvConfigPath(site, env)) ELSE r2
        r4 == Append(r3, LocalConfigPath)
    IN  IF ~defaults.ok THEN Returned(defaults, r1)
        ELSE IF ~siteConfig.ok THEN Returned(siteConfig, r2)
        ELSE IF ~envConfig.ok THEN Returned(envConfig, r3)
        ELSE IF ~localConfig.ok THEN Returned(localConfig, r4)
        ELSE Returned(SchemaParse(deepMerge(<<defaults.val, siteConfig.val,
                                              envConfig.val, localConfig.val>>)), r4)

\* async resolve(options)
resolve(fs, options) ==
    LET site == options.site
        env == options.env
        defaults == loadJson(fs, DefaultsPath, FALSE)
        siteConfig == loadJson(fs, SiteConfigPath(site), TRUE)
        envConfig == IF EnvGiven(env) THEN loadJson(fs, EnvConfigPath(site, env), FALSE)
                     ELSE Ok(JObj(<<>>))
        localConfig == loadJson(fs, LocalConfigPath, FALSE)
        r1 == <<DefaultsPath>>
        r2 == Append(r1, SiteConfigPath(site))
        r3 == IF EnvGiven(env) THEN Append(r2, EnvConfigPath(site, env)) ELSE r2
        r4 == Append(r3, LocalConfigPath)
    IN  IF ~defaults.ok THEN Returned(defaults, r1)
        ELSE IF ~siteConfig.ok THEN Returned(siteConfig, r2)
        ELSE IF ~envConfig.ok THEN Returned(envConfig, r3)
        ELSE IF ~localConfig.ok THEN Returned(localConfig, r4)
        ELSE LET merged == deepMerge(<<defaults.val, siteConfig.val,
                                       envConfig.val, localConfig.val>>)
                 interpolated == interpolateEnvVars(merged)
             IN  IF ~interpolated.ok THEN Returned(interpolated, r4)
                 ELSE Returned(SchemaParse(interpolated.val), r4)

\* siteConfig.enabled === false
EnabledIsFalse(config) == Field(config, "enabled") = JBool(FALSE)

SiteDisabledReason(site) == <<"Site", site, "is disabled in config.json">>
EnvDisabledReason(site, env) == <<"Environment", env, "is disabled for site", site>>
LocalDisabledReason == <<"Disabled in local.json">>

Disabled(reason) == [enabled |-> FALSE, reason |-> reason]
Enabled == [enabled |-> TRUE]

\* a check in which the last layer that sets enabled decides
IsEnabledLastWins(fs, options) ==
    LET site == options.site
        env == options.env
        siteConfig == loadJsonSync(fs, SiteConfigPath(site))
        envConfig == IF EnvGiven(env) THEN loadJsonSync(fs, EnvConfigPath(site, env))
                     ELSE JObj(<<>>)
        localConfig == loadJsonSync(fs, LocalConfigPath)
        r3 == (IF EnvGiven(env) THEN <<SiteConfigPath(site), EnvConfigPath(site, env)>>
               ELSE <<SiteConfigPath(site)>>) \o <<LocalConfigPath>>
    IN  IF HasKey(localConfig, "enabled")
        THEN Returned(Ok(IF EnabledIsFalse(localConfig) THEN Disabled(LocalDisabledReason)
                         ELSE Enabled), r3)
        ELSE IF HasKey(envConfig, "enabled")
        THEN Returned(Ok(IF EnabledIsFalse(envConfig)
                         THEN Disabled(EnvDisabledReason(site, env)) ELSE Enabled), r3)
        ELSE Returned(Ok(IF EnabledIsFalse(siteConfig)
                         THEN Disabled(SiteDisabledReason(site)) ELSE Enabled), r3)

\* isEnabledSync(options)
isEnabledSync(fs, options) ==
    LET site == options.site
        env == options.env
        siteConfig == loadJsonSync(fs, SiteConfigPath(site))
        envConfig == loadJsonSync(fs, EnvConfigPath(site, env))
        localConfig == loadJsonSync(fs, LocalConfigPath)
        r1 == <<SiteConfigPath(site)>>
        r2 == IF EnvGiven(env) THEN Append(r1, EnvConfigPath(site, env)) ELSE r1
        r3 == Append(r2, LocalConfigPath)
    IN  IF EnabledIsFalse(siteConfig)
        THEN Returned(Ok(Disabled(SiteDisabledReason(site))), r1)
        ELSE IF EnvGiven(env) /\ EnabledIsFalse(envConfig)
        THEN Returned(Ok(Disabled(EnvDisabledReason(site, env))), r2)
        ELSE IF EnabledIsFalse(localConfig)
        THEN Returned(Ok(Disabled(LocalDisabledReason)), r3)
        ELSE Returned(Ok(Enabled), r3)

(***************************************************************************)
(* The resolver's world: one site, one environment name, the four layer    *)
(* files each absent, unparseable or holding an object, and variable U     *)
(***************************************************************************)
URL_D == <<"h", "t", "t", "p", ":", "/", "/", "d">>
URL_S == <<"h", "t", "t", "p", "s", ":", "/", "/", "s", ".", "i", "o">>
URL_E == <<"h", "t", "t", "p", "s", ":", "/", "/", "e", ".", "i", "o">>
URL_L == <<"h", "t", "t", "p", ":", "/", "/", "l">>
URL_U == <<"h", "t", "t", "p", "s", ":", "/", "/", "u", ".", "i", "o">>
TOKEN_U         == <<"$", "{", "U", "}">>
TOKEN_U_DEFAULT == <<"$", "{", "U", ":", "-", "h", "t", "t", "p", ":", "/", "/", "d", "}">>
VarU == <<"U">>

ACME    == "acme"
STAGING == "staging"

Timeouts(n, a, s) ==
    JObj(<<Entry("navigation", JNum(n)), Entry("action", JNum(a)),
           Entry("assertion", JNum(s))>>)

DefaultsContents ==
    {JObj(<<>>),
     JObj(<<Entry("timeouts", Timeouts(30, 5, 5)),
            Entry("diagnostics",
                  JObj(<<Entry("screenshot", JStr(ONLY_ON_FAILURE)),
                         Entry("trace", JStr(RETAIN_ON_FAILURE)),
                         Entry("video", JStr(OFF))>>))>>),
     JObj(<<Entry("enabled", JBool(FALSE)),
            Entry("baseUrl", JStr(URL_D)),
            Entry("credentials", JStr(<<"s", "s">>)),
            Entry("timeouts", Timeouts(30, 5, 5)),
            Entry("browsers", JArr(<<JStr(<<"c">>), JStr(<<"f">>)>>))>>)}

SiteContents ==
    {JObj(<<Entry("baseUrl", JStr(URL_S))>>),
     JObj(<<Entry("enabled", JBool(FALSE)),
            Entry("baseUrl", JStr(TOKEN_U)),
            Entry("timeouts", JObj(<<Entry("navigation", JNum(60))>>))>>),
     JObj(<<Entry("baseUrl", JStr(TOKEN_U_DEFAULT)),
            Entry("timeouts", Timeouts(60, 1, 1)),
            Entry("credentials", JObj(<<Entry("username", JStr(USER)),
                                        Entry("password", JStr(TOKEN_U))>>)),
            Entry("browsers", JArr(<<JStr(<<"w">>)>>))>>),
     JObj(<<Entry("enabled", JBool(TRUE)),
            Entry("baseUrl", JStr(NOT_A_URL)),
            Entry("timeouts", Timeouts(0, 1, 1))>>)}

EnvContents ==
    {JObj(<<Entry("baseUrl", JStr(URL_E))>>),
     JObj(<<Entry("enabled", JBool(FALSE)),
            Entry("timeouts", JObj(<<Entry("action", JNum(7))>>))>>),
     JObj(<<Entry("enabled", JBool(TRUE)),
            Entry("credentials", JObj(<<Entry("username", JStr(<<"e">>)),
                                        Entry("password", JStr(<<"e">>))>>)),
            Entry("diagnostics", JObj(<<Entry("video", JStr(ON))>>))>>)}

LocalContents ==
    {JObj(<<Entry("enabled", JBool(TRUE)), Entry("baseUrl", JStr(URL_L))>>),
     JObj(<<Entry("enabled", JBool(FALSE))>>),
     JObj(<<Entry("timeouts", JObj(<<Entry("assertion", JNum(9))>>)),
            Entry("credentials", JObj(<<Entry("password", JStr(PASS))>>))>>)}

FilesOf(contents) == {FileAbsent, FileMalformed} \cup {FileJson(v) : v \in contents}

LayerPaths ==
    {DefaultsPath, SiteConfigPath(ACME), EnvConfigPath(ACME, STAGING), LocalConfigPath}

FileSystems ==
    {[p \in LayerPaths |->
        CASE p = DefaultsPath -> d
          [] p = SiteConfigPath(ACME) -> si
          [] p = EnvConfigPath(ACME, STAGING) -> e
          [] p = LocalConfigPath -> l] :
        d \in FilesOf(DefaultsContents), si \in FilesOf(SiteContents),
        e \in FilesOf(EnvContents), l \in FilesOf(LocalContents)}

Init ==
    /\ files \in FileSystems
    /\ environ \in {[n \in {VarU} |-> u] :
                      u \in {Unset, SetTo(URL_U), SetTo(NOT_A_URL)}}
    /\ input = <<>>
    /\ call = NoCall
    /\ outcome = NoResult
    /\ reads = <<>>
    /\ NoCore

\* await loader.resolve({ site, env })
ResolveCall(env) ==
    LET options == [site |-> ACME, env |-> env]
        r == resolve(files, options) IN
    /\ call' = [op |-> "resolve", options |-> options]
    /\ outcome' = r.result
    /\ reads' = r.reads
    /\ UNCHANGED <<files, environ, input, core>>

\* loader.isEnabledSync({ site, env })
IsEnabledCall(env) ==
    LET options == [site |-> ACME, env |-> env]
        r == isEnabledSync(files, options) IN
    /\ call' = [op |-> "isEnabledSync", options |-> options]
    /\ outcome' = r.result
    /\ reads' = r.reads
    /\ UNCHANGED <<files, environ, input, core>>

Next ==
    \/ \E env \in {NoEnv, STAGING} : ResolveCall(env)
    \/ \E env \in {NoEnv, STAGING} : IsEnabledCall(env)

Spec == Init /\ [][Next]_vars

(***************************************************************************)
(* What resolve is to give                                                 *)
(***************************************************************************)
Resolved == call.op = "resolve"

Range(f) == {f[i] : i \in DOMAIN f}

\* what a layer file contributes: its object, or the empty record
LayerAt(p) == IF ReadFile(files, p).kind = "json" THEN ReadFile(files, p).value
              ELSE JObj(<<>>)

\* the layers of a call, lowest precedence first: framework defaults, site,
\* environment (when one is given), local override
LayersOf(options) ==
    <<LayerAt(DefaultsPath),
      LayerAt(SiteConfigPath(options.site)),
      IF EnvGiven(options.env) THEN LayerAt(EnvConfigPath(options.site, options.env))
      ELSE JObj(<<>>),
      LayerAt(LocalConfigPath)>>

\* the plain objects at the end of vs: the layers above the last one that
\* replaced the key with something that is not an object
RECURSIVE ObjectSuffix(_)
ObjectSuffix(vs) ==
    IF vs = <<>> \/ ~IsPlainObject(vs[Len(vs)]) THEN <<>>
    ELSE Append(ObjectSuffix(SubSeq(vs, 1, Len(vs) - 1)), vs[Len(vs)])

ScalarKeys == {"enabled", "baseUrl"}
ObjectKeys == {"timeouts", "credentials", "diagnostics"}
SubFields(k) ==
    CASE k = "timeouts" -> TimeoutFields
      [] k = "credentials" -> {"username", "password"}
      [] k = "diagnostics" -> DiagnosticsFields

\* cfg holds at k exactly what the highest layer defining k holds,
\* interpolated; nothing if no layer defines k
TopLayerWins(objs, cfg, k) ==
    LET vs == ValuesAt(objs, k) IN
    IF vs = <<>> THEN ~HasKey(cfg, k)
    ELSE HasKey(cfg, k) /\ Ok(Get(cfg, k)) = interpolateEnvVars(vs[Len(vs)])

SchemaKeysByPrecedence(L, cfg) ==
    /\ \A k \in ScalarKeys : TopLayerWins(L, cfg, k)
    /\ \A k \in ObjectKeys :
          IF ValuesAt(L, k) = <<>> THEN ~HasKey(cfg, k)
          ELSE /\ HasKey(cfg, k)
               /\ \A f \in SubFields(k) :
                     TopLayerWins(ObjectSuffix(ValuesAt(L, k)), Get(cfg, k), f)

\* the environment file is read only when an environment is given, and the
\* local file whenever the layers before it loaded
LayersRead ==
    /\ ~EnvGiven(call.options.env) =>
          \A i \in 1..Len(reads) : reads[i] \in {DefaultsPath,
                                                 SiteConfigPath(call.options.site),
                                                 LocalConfigPath}
    /\ (/\ ReadFile(files, DefaultsPath).kind # "malformed"
        /\ ReadFile(files, SiteConfigPath(call.options.site)).kind = "json"
        /\ EnvGiven(call.options.env) =>
              ReadFile(files, EnvConfigPath(call.options.site,
                                            call.options.env)).kind # "malformed")
       => LocalConfigPath \in Range(reads)

C2_ResolvedShape == (Resolved /\ outcome.ok) => ShapeOk(outcome.val)

\* a configuration came back whose credentials were put together from two
\* layers, each holding only a part
C2_Witness ==
    /\ Resolved /\ outcome.ok
    /\ HasKey(outcome.val, "credentials")
    /\ \E p \in LayerPaths :
          /\ files[p].kind = "json" /\ IsObjectAt(files[p].value, "credentials")
          /\ ~HasKey(Get(files[p].value, "credentials"), "username")

(***************************************************************************)
(* Missing and malformed layer files                                       *)
(***************************************************************************)
SiteFile == files[SiteConfigPath(call.options.site)]

\* the optional layer files of the call
OptionalPaths ==
    {DefaultsPath, LocalConfigPath}
      \cup (IF EnvGiven(call.options.env)
            THEN {EnvConfigPath(call.options.site, call.options.env)} ELSE {})

SiteNotFoundRaised ==
    /\ ~outcome.ok
    /\ outcome.error.name = "Error"
    /\ outcome.error.message = "Site config not found"
    /\ outcome.error.path = SiteConfigPath(call.options.site)

\* an absent optional file gives what the same file holding {} gives
AbsentIsEmptyRecord ==
    \A p \in OptionalPaths :
        files[p].kind = "absent" =>
            /\ resolve([files EXCEPT ![p] = FileJson(JObj(<<>>))],
                       call.options).result = outcome
            /\ ~(outcome.ok = FALSE /\ outcome.error.name = "Error"
                 /\ outcome.error.path = p)

\* C3 as stated: resolve fails with "site config not found" naming the site
\* file exactly when the site file is absent; an absent defaults,
\* environment or local file is no error and contributes an empty record.
C3_AsStated ==
    Resolved =>
        /\ SiteNotFoundRaised <=> SiteFile.kind = "absent"
        /\ AbsentIsEmptyRecord

\* C3 as amended: the site-not-found error is raised exactly when the site
\* file is absent and the framework-defaults file, read before it, is
\* absent or parseable.
C3_SiteNotFound ==
    Resolved =>
        /\ SiteNotFoundRaised <=>
              (SiteFile.kind = "absent" /\ files[DefaultsPath].kind # "malformed")
        /\ AbsentIsEmptyRecord

\* the site file and the defaults file are both absent: the error names the
\* site file
C3_Witness ==
    /\ Resolved
    /\ SiteFile.kind = "absent"
    /\ files[DefaultsPath].kind = "absent"
    /\ outcome = Thrown(SiteConfigNotFound(SiteConfigPath(call.options.site)))
    /\ reads = <<DefaultsPath, SiteConfigPath(call.options.site)>>

\* a call with defaults, environment and local file all absent succeeds
C3_OptionalAbsentReached ==
    /\ Resolved /\ outcome.ok /\ EnvGiven(call.options.env)
    /\ \A p \in OptionalPaths : files[p].kind = "absent"

MalformedRead == {i \in 1..Len(reads) : files[reads[i]].kind = "malformed"}

\* C4: a layer file that resolve reads and that holds unparseable JSON makes
\* resolve fail with a parse error naming that file, and no configuration
\* is returned.
C4_ParseErrorNamesFile ==
    Resolved =>
        \A i \in MalformedRead :
            /\ ~outcome.ok
            /\ outcome.error.name = "SyntaxError"
            /\ outcome.error.path = reads[i]

\* what holds of a malformed layer file: the parse error is raised, reading
\* stops at that file, and no configuration is returned
C4_ParseErrorRaised ==
    Resolved =>
        \A i \in MalformedRead :
            /\ outcome = Thrown(JsonSyntaxError)
            /\ i = Len(reads)

C4_MalformedReached ==
    /\ Resolved
    /\ MalformedRead # {}
    /\ files[reads[Len(reads)]].kind = "malformed"
    /\ reads[Len(reads)] = LocalConfigPath

(***************************************************************************)
(* What isEnabledSync is to give                                           *)
(***************************************************************************)
EnabledChecked == call.op = "isEnabledSync"

\* the layers isEnabledSync looks at, in its order
CheckedLayers(options) ==
    <<[layer |-> "site", path |-> SiteConfigPath(options.site)]>>
      \o (IF EnvGiven(options.env)
          THEN <<[layer |-> "env", path |-> EnvConfigPath(options.site, options.env)]>>
          ELSE <<>>)
      \o <<[layer |-> "local", path |-> LocalConfigPath]>>

HoldsEnabled(p, b) ==
    /\ files[p].kind = "json"
    /\ HasKey(files[p].value, "enabled")
    /\ Get(files[p].value, "enabled") = JBool(b)

Disabling(ls) == {i \in 1..Len(ls) : HoldsEnabled(ls[i].path, FALSE)}

First(S) == CHOOSE i \in S : \A j \in S : i <= j

\* the reason names the layer: the site and its config.json, the
\* environment, or local.json
NamesLayer(reason, layer, options) ==
    CASE layer = "site" -> reason = <<"Site", options.site, "is disabled in config.json">>
      [] layer = "env" -> /\ Len(reason) = 4
                          /\ reason[1] = "Environment" /\ reason[2] = options.env
      [] layer = "local" -> reason = <<"Disabled in local.json">>

\* C10: isEnabled gives enabled=false exactly when the site layer, the
\* environment layer (if env is given) or the local layer holds enabled
\* false, with a reason naming the first such layer in the order site,
\* environment, local; a later enabled: true does not re-enable, the
\* defaults layer is not consulted; otherwise enabled=true and no reason.
C10_FirstFalseWins ==
    EnabledChecked =>
        LET ls == CheckedLayers(call.options) IN
        /\ outcome.ok
        /\ DefaultsPath \notin Range(reads)
        /\ IF Disabling(ls) = {}
           THEN outcome.val = [enabled |-> TRUE]
           ELSE /\ outcome.val.enabled = FALSE
                /\ NamesLayer(outcome.val.reason, ls[First(Disabling(ls))].layer,
                              call.options)

\* the site layer disables, the environment and the local layer say
\* enabled: true, and the defaults say enabled: false
C10_Witness ==
    /\ EnabledChecked /\ EnvGiven(call.options.env)
    /\ HoldsEnabled(SiteConfigPath(call.options.site), FALSE)
    /\ HoldsEnabled(EnvConfigPath(call.options.site, call.options.env), TRUE)
    /\ HoldsEnabled(LocalConfigPath, TRUE)
    /\ outcome = Ok(Disabled(SiteDisabledReason(call.options.site)))

\* only the defaults say enabled: false, and the site is enabled
C10_DefaultsIgnoredReached ==
    /\ EnabledChecked
    /\ HoldsEnabled(DefaultsPath, FALSE)
    /\ Disabling(CheckedLayers(call.options)) = {}
    /\ outcome = Ok([enabled |-> TRUE])

(***************************************************************************)
(* The component core:                                                     *)
(*   framework/core/decorators.ts          (@Component, its metadata)      *)
(*   framework/core/BasePage.ts            (@Page, BasePage)               *)
(*   framework/core/BaseComponent.ts       (BaseComponent)                 *)
(*   framework/core/ComponentCollection.ts (ComponentCollection)           *)
(*                                                                         *)
(* Classes are named by strings.  The metadata of a class is kept by       *)
(* reflect-metadata on the class (routes) or on its prototype (component   *)
(* metadata); both have the superclass's as their prototype, so one chain  *)
(* Extends serves for both.  A metadata map is a JavaScript object that    *)
(* several classes may hold a reference to, so the maps live in a store    *)
(* and a class holds a reference into it.  Slot names are not              *)
(* integer-like, and slots are declared with "declare", so that the class  *)
(* defines no field over what the constructor assigned.                    *)
(***************************************************************************)
Undefined == [t |-> "undefined"]

\* a class, as a value (a constructor)
Class(name) == [t |-> "class", name |-> name]

BASE_PAGE == "BasePage"
BASE_COMPONENT == "BaseComponent"
OBJECT == "Object"

PageClasses == {"ParentPage", "ChildPage", "SiblingPage", "OtherPage"}
ComponentClasses == {"HeaderComponent", "ItemComponent", "SearchComponent"}
Targets == PageClasses \cup ComponentClasses \cup {BASE_PAGE, BASE_COMPONENT}

\* class C extends Extends(C)
Extends(c) ==
    CASE c \in {"ChildPage", "SiblingPage"} -> "ParentPage"
      [] c \in {"ParentPage", "OtherPage"} -> BASE_PAGE
      [] c \in ComponentClasses -> BASE_COMPONENT
      [] OTHER -> OBJECT

\* Reflect.getMetadata(key, target): the target's own metadata, else that
\* of the nearest class up the prototype chain that has any
RECURSIVE GetMetadata(_, _)
GetMetadata(own, target) ==
    IF target = OBJECT THEN Undefined
    ELSE IF own[target] # Undefined THEN own[target]
    ELSE GetMetadata(own, Extends(target))

\* a reference to the i-th metadata map of the store
MapRef(i) == [t |-> "ref", at |-> i]

\* no class has metadata
EmptyMetadata ==
    [own |-> [c \in Targets |-> Undefined],
     maps |-> <<>>,
     route |-> [c \in Targets |-> Undefined]]

\* ComponentMetadata
ComponentMetadata(selector, multiple, propertyKey, type) ==
    [selector |-> selector, multiple |-> multiple,
     propertyKey |-> propertyKey, type |-> type]

\* options of @Component: { multiple?, type? }, a field left out is
\* undefined
ComponentOptions(multiple, type) == [multiple |-> multiple, type |-> type]

\* a ?? b
Coalesce(a, b) == IF a = Undefined THEN b ELSE a

\* Component(selector, options)(target, propertyKey), where designType is
\* what Reflect.getMetadata('design:type', target, propertyKey) gives
Component(meta, selector, options, target, propertyKey, designType) ==
    LET componentType == Coalesce(options.type, designType)
        md == ComponentMetadata(selector, Coalesce(options.multiple, JBool(FALSE)).b,
                                propertyKey, componentType)
        found == GetMetadata(meta.own, target)
        existingMetadata == IF found = Undefined THEN JObj(<<>>) ELSE meta.maps[found.at]
        written == JObj(SetKey(existingMetadata.entries, propertyKey, md))
    IN  IF found = Undefined
        THEN [meta EXCEPT !.maps = Append(@, written),
                          !.own = [@ EXCEPT ![target] = MapRef(Len(meta.maps) + 1)]]
        ELSE [meta EXCEPT !.maps = [@ EXCEPT ![found.at] = written],
                          !.own = [@ EXCEPT ![target] = found]]

\* getComponentMetadata(target): the whole map
getComponentMetadataAll(meta, target) ==
    LET allMetadata == GetMetadata(meta.own, target)
    IN  IF allMetadata = Undefined THEN JObj(<<>>) ELSE meta.maps[allMetadata.at]

\* getComponentMetadata(target, propertyKey)
getComponentMetadata(meta, target, propertyKey) ==
    LET allMetadata == GetMetadata(meta.own, target)
    IN  IF allMetadata = Undefined THEN Undefined
        ELSE IF HasKey(meta.maps[allMetadata.at], propertyKey)
        THEN Get(meta.maps[allMetadata.at], propertyKey)
        ELSE Undefined

(***************************************************************************)
(* Registrations and lookups                                               *)
(***************************************************************************)
MaxRegistrations == 3

Slots == {"header", "items"}

\* the ways a slot is declared: with an explicit type, with multiple and an
\* explicit type, with the type left to the design-type metadata
Declarations ==
    {[selector |-> ".header",
      options |-> ComponentOptions(Undefined, Class("HeaderComponent")),
      designType |-> Undefined],
     [selector |-> ".item",
      options |-> ComponentOptions(JBool(TRUE), Class("ItemComponent")),
      designType |-> Undefined],
     [selector |-> ".search",
      options |-> ComponentOptions(Undefined, Undefined),
      designType |-> Class("SearchComponent")]}

\* nothing of the configuration side is in play
NoConfig ==
    /\ files = NoFiles
    /\ environ = <<>>
    /\ input = <<>>
    /\ reads = <<>>

InitRegistry ==
    /\ NoConfig
    /\ call = NoCall
    /\ outcome = NoResult
    /\ metadata = EmptyMetadata
    /\ heap = <<>>
    /\ dom = <<>>
    /\ log = <<>>
    /\ task = <<>>

\* @Component(selector, options) on slot propertyKey of class target
RegisterCall(target, propertyKey, d) ==
    /\ Len(log) < MaxRegistrations
    /\ metadata' = Component(metadata, d.selector, d.options, target, propertyKey,
                             d.designType)
    /\ call' = [op |-> "Component", target |-> target, propertyKey |-> propertyKey,
                selector |-> d.selector, options |-> d.options,
                designType |-> d.designType]
    /\ log' = Append(log, call')
    /\ outcome' = Ok(Undefined)
    /\ UNCHANGED <<files, environ, input, reads, heap, dom, task>>

\* getComponentMetadata(target, propertyKey)
LookupCall(target, propertyKey) ==
    /\ call' = [op |-> "getComponentMetadata", target |-> target,
                propertyKey |-> JStr(propertyKey)]
    /\ outcome' = Ok(getComponentMetadata(metadata, target, propertyKey))
    /\ UNCHANGED <<files, environ, input, reads, core>>

\* getComponentMetadata(target)
LookupAllCall(target) ==
    /\ call' = [op |-> "getComponentMetadata", target |-> target,
                propertyKey |-> Undefined]
    /\ outcome' = Ok(getComponentMetadataAll(metadata, target))
    /\ UNCHANGED <<files, environ, input, reads, core>>

NextRegistry ==
    \/ \E target \in PageClasses, propertyKey \in Slots, d \in Declarations :
          RegisterCall(target, propertyKey, d)
    \/ \E target \in PageClasses, propertyKey \in Slots : LookupCall(target, propertyKey)
    \/ \E target \in PageClasses : LookupAllCall(target)

SpecRegistry == InitRegistry /\ [][NextRegistry]_vars

(***************************************************************************)
(* What the registry is to hold                                            *)
(***************************************************************************)
\* the registrations made so far for (target, slot), as positions in log
Registrations(target, slot) ==
    {i \in 1..Len(log) : /\ log[i].op = "Component"
                         /\ log[i].target = target
                         /\ log[i].propertyKey = slot}

Latest(S) == CHOOSE i \in S : \A j \in S : j <= i

\* the descriptor a registration asks for
DescriptorOf(r) ==
    [selector |-> r.selector,
     multiple |-> (r.options.multiple = JBool(TRUE)),
     propertyKey |-> r.propertyKey,
     type |-> IF r.options.type # Undefined THEN r.options.type ELSE r.designType]

RegisteredSlots(target) == {slot \in Slots : Registrations(target, slot) # {}}

RECURSIVE Ancestors(_)
Ancestors(c) == IF Extends(c) = OBJECT THEN {} ELSE {Extends(c)} \cup Ancestors(Extends(c))

\* lookup of (target, slot) gives the latest registration for the pair, or
\* nothing; the map of target has one entry for each slot registered for it
LatestRegistrationFound(target) ==
    /\ \A slot \in Slots :
          getComponentMetadata(metadata, target, slot) =
              (IF Registrations(target, slot) = {} THEN Undefined
               ELSE DescriptorOf(log[Latest(Registrations(target, slot))]))
    /\ LET m == getComponentMetadataAll(metadata, target) IN
          /\ Keys(m) = RegisteredSlots(target)
          /\ Len(m.entries) = Cardinality(Keys(m))

\* C15: after any sequence of registrations, lookup of a (class, slot) pair
\* gives the descriptor of the most recent registration for the pair, the
\* class's map holds exactly one entry per slot registered for it, a slot
\* never registered gives nothing and a class without registrations an
\* empty map.
C15_LatestRegistration == \A target \in PageClasses : LatestRegistrationFound(target)

\* no class above or below target has a registration
AloneInHierarchy(target) ==
    \A other \in PageClasses :
        (other \in Ancestors(target) \/ target \in Ancestors(other))
            => RegisteredSlots(other) = {}

\* C15 holds of the classes that share no registration with a superclass
\* or a subclass
C15_AloneInHierarchy ==
    \A target \in PageClasses : AloneInHierarchy(target) => LatestRegistrationFound(target)

\* the same slot registered twice on one class, no other class registered
C15_ReplacedReached ==
    /\ Len(log) = 3
    /\ \A i \in 1..3 : log[i].target = "OtherPage"
    /\ log[1].propertyKey = "header" /\ log[3].propertyKey = "header"
    /\ log[1].selector # log[3].selector
    /\ call.op = "getComponentMetadata" /\ call.target = "OtherPage"
    /\ call.propertyKey = JStr("header")
    /\ outcome = Ok(DescriptorOf(log[3]))

\* C16: lookup gives only what is registered on exactly the class passed: a
\* slot registered on a superclass and not on the subclass is not found
\* for the subclass, neither by name nor in the full map.
C16_ExactClassLookup ==
    \A sub \in PageClasses, slot \in Slots :
        (/\ Registrations(sub, slot) = {}
         /\ \E super \in Ancestors(sub) \cap PageClasses : Registrations(super, slot) # {})
        => /\ getComponentMetadata(metadata, sub, slot) = Undefined
           /\ slot \notin Keys(getComponentMetadataAll(metadata, sub))

(***************************************************************************)
(* Pages, components and collections as objects                            *)
(***************************************************************************)
\* a reference to the i-th object constructed
Ref(i) == [t |-> "object", at |-> i]

\* the Playwright page handed to a page object (the navigation capability)
PLAYWRIGHT_PAGE == [t |-> "playwright-page"]

\* a Playwright locator: the narrowing steps from the page, none of which
\* touches the DOM until an action or a query is made on the locator
Locator(steps) == [t |-> "locator", steps |-> steps]

\* the calls made on the Playwright page and on locators
EngineCall(op, on, arg) == [op |-> op, on |-> on, arg |-> arg]

\* this.page.locator(selector)
PageLocator(selector) == Locator(<<[op |-> "locator", arg |-> selector]>>)

\* new BaseComponent(locator, config, page), or a subclass that inherits
\* its constructor: the three are stored and nothing else is done
NewBaseComponent(ComponentClass, locator, config, page) ==
    [kind |-> "component", class |-> ComponentClass, locator |-> locator,
     config |-> config, page |-> page, slots |-> <<>>]

\* new ComponentCollection(locator, ComponentClass, config, page)
NewComponentCollection(locator, ComponentClass, config, page) ==
    [kind |-> "collection", locator |-> locator, ComponentClass |-> ComponentClass,
     config |-> config, page |-> page]

\* a round that gives a slot without a child type a plain BaseComponent
InitializeComponentUntypedAsBase(acc, propertyKey, meta, config, page) ==
    LET locator == PageLocator(meta.selector)
        called == Append(acc.calls, EngineCall("locator", page, meta.selector))
        name == IF meta.type = Undefined THEN BASE_COMPONENT ELSE meta.type.name
        created == IF meta.multiple
                   THEN NewComponentCollection(locator, name, config, page)
                   ELSE NewBaseComponent(name, locator, config, page)
    IN  [heap |-> Append(acc.heap, created),
         slots |-> SetKey(acc.slots, propertyKey, Ref(Len(acc.heap) + 1)),
         calls |-> called]

\* one round of the loop of initializeComponents over the entry
\* [propertyKey, meta]; acc holds the heap, the slots assigned to this and
\* the engine calls made
InitializeComponent(acc, propertyKey, meta, config, page) ==
    LET locator == PageLocator(meta.selector)
        called == Append(acc.calls, EngineCall("locator", page, meta.selector))
        ComponentClass == meta.type
        created == IF meta.multiple
                   THEN NewComponentCollection(locator, ComponentClass.name, config, page)
                   ELSE NewBaseComponent(ComponentClass.name, locator, config, page)
    IN  IF ComponentClass = Undefined
        THEN [acc EXCEPT !.calls = called]
        ELSE [heap |-> Append(acc.heap, created),
              slots |-> SetKey(acc.slots, propertyKey, Ref(Len(acc.heap) + 1)),
              calls |-> called]

RECURSIVE InitializeLoop(_, _, _, _, _)
InitializeLoop(acc, entries, i, config, page) ==
    IF i > Len(entries) THEN acc
    ELSE InitializeLoop(InitializeComponent(acc, entries[i].k, entries[i].v, config, page),
                        entries, i + 1, config, page)

\* BasePage.initializeComponents on the object just allocated at the end
\* of h, an instance of class cls
initializeComponents(meta, h, cls, config, page) ==
    InitializeLoop([heap |-> h, slots |-> <<>>, calls |-> <<>>],
                   getComponentMetadataAll(meta, cls).entries, 1, config, page)

\* new cls(page, config) for a page class cls: the heap after it, the
\* reference to the new page object, the engine calls made
NewBasePage(meta, h, cls, page, config) ==
    LET this == Len(h) + 1
        allocated == Append(h, [kind |-> "page", class |-> cls, page |-> page,
                                config |-> config, slots |-> <<>>])
        done == initializeComponents(meta, allocated, cls, config, page)
    IN  [heap |-> [done.heap EXCEPT ![this].slots = done.slots],
         this |-> Ref(this),
         calls |-> done.calls]

\* Page(route) on class target
Page(meta, route, target) == [meta EXCEPT !.route[target] = route]

\* getPageRoute(target)
getPageRoute(meta, target) == GetMetadata(meta.route, target)

\* new Error(`No @Page decorator found on ${this.constructor.name}`)
NoPageDecorator(cls) ==
    [name |-> "Error", message |-> "No @Page decorator found on", class |-> cls]

\* a getRoute that lets a missing route through as the empty path
GetRouteUnchecked(meta, cls) ==
    Ok(Coalesce(getPageRoute(meta, cls), JStr(<<>>)))

\* a getRoute that fails only when no route is found (route === undefined)
GetRouteUndefinedOnly(meta, cls) ==
    LET route == getPageRoute(meta, cls)
    IN  IF route = Undefined THEN Thrown(NoPageDecorator(cls)) ELSE Ok(route)

\* BasePage.getRoute: !route holds of undefined and of the empty string
getRoute(meta, cls) ==
    LET route == getPageRoute(meta, cls)
    IN  IF route = Undefined \/ route = JStr(<<>>) THEN Thrown(NoPageDecorator(cls))
        ELSE Ok(route)

(***************************************************************************)
(* Page classes as declared, page construction, goto                       *)
(***************************************************************************)
MaxGotos == 2

\* a decorator application, as the registry sees it
Decorated(target, propertyKey, selector, options, designType) ==
    [op |-> "Component", target |-> target, propertyKey |-> propertyKey,
     selector |-> selector, options |-> options, designType |-> designType]

\* class HeaderComponent declares a child slot of its own
HeaderDeclarations ==
    <<Decorated("HeaderComponent", "search", ".search",
                ComponentOptions(Undefined, Undefined), Class("SearchComponent"))>>

ParentHeader ==
    Decorated("ParentPage", "header", ".header",
              ComponentOptions(Undefined, Class("HeaderComponent")), Undefined)

ParentItems ==
    Decorated("ParentPage", "items", ".item",
              ComponentOptions(JBool(TRUE), Class("ItemComponent")), Undefined)

\* class ChildPage extends ParentPage and declares items again
ChildDeclarations ==
    <<Decorated("ChildPage", "items", ".row",
                ComponentOptions(JBool(TRUE), Class("ItemComponent")), Undefined)>>

\* two singular slots and one many slot
OtherTyped ==
    <<Decorated("OtherPage", "header", ".header",
                ComponentOptions(Undefined, Class("HeaderComponent")), Undefined),
      Decorated("OtherPage", "search", ".search",
                ComponentOptions(JBool(FALSE), Undefined), Class("SearchComponent")),
      Decorated("OtherPage", "items", ".item",
                ComponentOptions(JBool(TRUE), Class("ItemComponent")), Undefined)>>

\* a slot with no type given and none derivable
OtherUntyped ==
    <<Decorated("OtherPage", "extra", ".extra",
                ComponentOptions(Undefined, Undefined), Undefined)>>

\* the class definitions of a program, in definition order
Programs ==
    {a \o b \o c \o d :
        a \in {<<>>, HeaderDeclarations},
        b \in {<<>>, <<ParentHeader>>, <<ParentItems>>, <<ParentHeader, ParentItems>>},
        c \in {<<>>, ChildDeclarations},
        d \in {<<>>, OtherTyped, OtherUntyped \o OtherTyped, OtherUntyped}}

ROUTE_P == <<"/", "p">>
ROUTE_C == <<"/", "c">>
ROUTE_O == <<"/", "o">>

\* @Page(route) on class target
Routed(target, route) == [op |-> "Page", target |-> target, route |-> route]

\* the @Page decorators of a program: ParentPage and ChildPage with a path
\* or undecorated, OtherPage also with the empty string
RouteDeclarations ==
    {p \o ch \o o :
        p \in {<<>>, <<Routed("ParentPage", JStr(ROUTE_P))>>},
        ch \in {<<>>, <<Routed("ChildPage", JStr(ROUTE_C))>>},
        o \in {<<>>, <<Routed("OtherPage", JStr(<<>>))>>,
               <<Routed("OtherPage", JStr(ROUTE_O))>>}}

\* the decorators of a program applied in order
RECURSIVE DecorateAll(_, _, _)
DecorateAll(meta, program, i) ==
    IF i > Len(program) THEN meta
    ELSE DecorateAll(IF program[i].op = "Page"
                     THEN Page(meta, program[i].route, program[i].target)
                     ELSE Component(meta, program[i].selector, program[i].options,
                                    program[i].target, program[i].propertyKey,
                                    program[i].designType),
                     program, i + 1)

\* the configurations handed to pages
PageConfigs ==
    {JObj(<<Entry("baseUrl", JStr(u)), Entry("timeouts", Timeouts(1, 1, 1))>>) :
        u \in {URL_X, URL_D}}

\* class OtherPage overrides waitForReady
OverridesWaitForReady(cls) == cls = "OtherPage"

Idle == "idle"
Pending == [ok |-> FALSE, error |-> [name |-> "pending"]]

\* the browser before any navigation
Blank == [url |-> Undefined]

InitPage ==
    /\ NoConfig
    /\ call = NoCall
    /\ outcome = NoResult
    /\ \E program \in Programs, routes \in RouteDeclarations :
          /\ metadata = DecorateAll(EmptyMetadata, program \o routes, 1)
          /\ log = program \o routes
    /\ heap = <<>>
    /\ dom = Blank
    /\ task = [pc |-> Idle, gotos |-> 0]

\* new cls(page, config)
ConstructCall(cls, config) ==
    /\ heap = <<>>
    /\ LET r == NewBasePage(metadata, heap, cls, PLAYWRIGHT_PAGE, config) IN
          /\ heap' = r.heap
          /\ log' = log \o r.calls
          /\ call' = [op |-> "new", class |-> cls, config |-> config, since |-> Len(log)]
          /\ outcome' = Ok(r.this)
    /\ UNCHANGED <<files, environ, input, reads, metadata, dom, task>>

NavigationError == [name |-> "Error", message |-> "page.goto failed"]
ReadyError == [name |-> "Error", message |-> "waitForReady failed"]

\* page.goto() up to its first await: getRoute, the URL, this.page.goto(url)
GotoCall ==
    /\ heap # <<>>
    /\ task.pc = Idle
    /\ task.gotos < MaxGotos
    /\ call' = [op |-> "goto", this |-> Ref(1), since |-> Len(log)]
    /\ LET this == heap[1]
           route == getRoute(metadata, this.class)
           url == Get(this.config, "baseUrl").s \o route.val.s
       IN  IF ~route.ok
           THEN /\ outcome' = route
                /\ task' = [task EXCEPT !.gotos = @ + 1]
                /\ log' = log
           ELSE /\ outcome' = Pending
                /\ task' = [pc |-> "page.goto", gotos |-> task.gotos + 1, url |-> url]
                /\ log' = Append(log, EngineCall("goto", this.page, url))
    /\ UNCHANGED <<files, environ, input, reads, metadata, heap, dom>>

\* a goto that goes on to waitForReady whether or not the navigation
\* resolved
NavigationSettlesReadyRegardless(resolved) ==
    /\ task.pc = "page.goto"
    /\ dom' = IF resolved THEN [url |-> JStr(task.url)] ELSE dom
    /\ task' = [pc |-> "waitForReady", gotos |-> task.gotos]
    /\ log' = Append(log, IF OverridesWaitForReady(heap[1].class)
                          THEN EngineCall("customWait", heap[1].page, "")
                          ELSE EngineCall("waitForLoadState", heap[1].page,
                                          "networkidle"))
    /\ UNCHANGED <<files, environ, input, reads, metadata, heap, call, outcome>>

\* await this.page.goto(url) settles; if it resolved, this.waitForReady()
\* is invoked: the default waits for the load state, the override of
\* OtherPage calls its own wait
NavigationSettles(resolved) ==
    /\ task.pc = "page.goto"
    /\ IF resolved
       THEN /\ dom' = [url |-> JStr(task.url)]
            /\ task' = [pc |-> "waitForReady", gotos |-> task.gotos]
            /\ log' = Append(log, IF OverridesWaitForReady(heap[1].class)
                                  THEN EngineCall("customWait", heap[1].page, "")
                                  ELSE EngineCall("waitForLoadState", heap[1].page,
                                                  "networkidle"))
            /\ UNCHANGED outcome
       ELSE /\ outcome' = Thrown(NavigationError)
            /\ task' = [pc |-> Idle, gotos |-> task.gotos]
            /\ UNCHANGED <<dom, log>>
    /\ UNCHANGED <<files, environ, input, reads, metadata, heap, call>>

\* await this.waitForReady() settles; if it resolved, goto returns this
ReadySettles(resolved) ==
    /\ task.pc = "waitForReady"
    /\ outcome' = IF resolved THEN Ok(call.this) ELSE Thrown(ReadyError)
    /\ task' = [pc |-> Idle, gotos |-> task.gotos]
    /\ UNCHANGED <<files, environ, input, reads, metadata, heap, dom, log, call>>

NextPage ==
    \/ \E cls \in PageClasses, config \in PageConfigs : ConstructCall(cls, config)
    \/ GotoCall
    \/ \E resolved \in BOOLEAN : NavigationSettles(resolved)
    \/ \E resolved \in BOOLEAN : ReadySettles(resolved)

SpecPage == InitPage /\ [][NextPage]_vars

(***************************************************************************)
(* What constructing a page is to give                                     *)
(***************************************************************************)
AllSlots == Slots \cup {"search", "extra"}

AllClasses == PageClasses \cup ComponentClasses

\* the descriptor declared last for slot on exactly class cls
Declared(cls, slot) == DescriptorOf(log[Latest(Registrations(cls, slot))])

\* the slots class cls declares with a child type
TypedSlots(cls) ==
    {slot \in AllSlots : /\ Registrations(cls, slot) # {}
                         /\ Declared(cls, slot).type # Undefined}

NavigationOps == {"goto", "reload", "goBack", "goForward"}
QueryOps == {"count", "waitForLoadState", "customWait", "click", "fill",
             "textContent", "isVisible"}

\* the engine calls made since the call began
Since == SubSeq(log, call.since + 1, Len(log))

Constructed == call.op = "new" /\ outcome.ok

\* obj is what descriptor d asks for under the object parent: an instance of
\* the child type over the selector-narrowed capability with the parent's
\* config and the navigation capability, or a collection of that child type
MaterializedAs(obj, d, parent) ==
    /\ obj.locator = Locator(<<[op |-> "locator", arg |-> d.selector]>>)
    /\ obj.config = parent.config
    /\ obj.page = PLAYWRIGHT_PAGE
    /\ IF d.multiple
       THEN obj.kind = "collection" /\ obj.ComponentClass = d.type.name
       ELSE obj.kind = "component" /\ obj.class = d.type.name

\* every slot that the class of the object at ref declares with a child
\* type is assigned what its descriptor asks for
SlotsMaterialized(ref) ==
    LET this == heap[ref.at] IN
    \A slot \in TypedSlots(this.class) :
        /\ HasKey(JObj(this.slots), slot)
        /\ MaterializedAs(heap[Get(JObj(this.slots), slot).at],
                          Declared(this.class, slot), this)

Inert == \A i \in 1..Len(Since) : Since[i].op \notin NavigationOps \cup QueryOps

\* C11: constructing a page assigns to every declared slot of cardinality
\* one an instance of its child type bound to the selector-narrowed
\* capability, the page's config and the navigation capability, and to
\* every declared slot of cardinality many a collection over the narrowed
\* capability with that child type and config; no navigation and no DOM
\* query is issued.
C11_PageMaterialized ==
    Constructed => /\ SlotsMaterialized(outcome.val)
                   /\ heap[outcome.val.at].class = call.class
                   /\ heap[outcome.val.at].config = call.config
                   /\ Inert

\* no class above or below cls declares a slot
NoSlotsInHierarchy(cls) ==
    \A other \in PageClasses :
        (other \in Ancestors(cls) \/ cls \in Ancestors(other))
            => \A slot \in AllSlots : Registrations(other, slot) = {}

\* C11 holds of a page class that shares no declaration with a superclass
\* or a subclass
C11_AloneInHierarchy ==
    (Constructed /\ NoSlotsInHierarchy(call.class)) =>
        /\ SlotsMaterialized(outcome.val)
        /\ DOMAIN heap = 1..(1 + Cardinality(TypedSlots(call.class)))
        /\ Inert

\* a page with two singular slots and one many slot has been constructed
C11_ThreeSlotsReached ==
    /\ Constructed /\ call.class = "OtherPage"
    /\ TypedSlots("OtherPage") = {"header", "search", "items"}
    /\ Len(heap) = 4
    /\ heap[2].kind = "component" /\ heap[3].kind = "component"
    /\ heap[4].kind = "collection"
    /\ Len(Since) = 3

\* C12: a component whose class declares child slots has them materialized
\* when it is constructed, so that after a page is constructed its declared
\* component graph is materialized at every depth.
C12_EveryDepthMaterialized ==
    Constructed =>
        \A i \in DOMAIN heap :
            heap[i].kind = "component" => SlotsMaterialized(Ref(i))

\* what holds instead: a component constructed by a page has no slot
\* assigned, whatever its class declares
C12_ComponentsHaveNoSlots ==
    Constructed =>
        \A i \in DOMAIN heap : heap[i].kind = "component" => heap[i].slots = <<>>

C12_NestedDeclarationReached ==
    /\ Constructed
    /\ \E i \in DOMAIN heap :
          /\ heap[i].kind = "component"
          /\ TypedSlots(heap[i].class) # {}

(***************************************************************************)
(* What goto is to do                                                      *)
(***************************************************************************)
\* the @Page decorators applied to exactly class cls, as positions in log
RouteDeclared(cls) ==
    {i \in 1..Len(log) : log[i].op = "Page" /\ log[i].target = cls}

DeclaredRoute(cls) == log[Latest(RouteDeclared(cls))].route

GotoMade == call.op = "goto"

\* the call of the readiness hook of class cls: the override if the class
\* has one, else the wait for the network-idle load state
ReadyHook(cls) ==
    IF OverridesWaitForReady(cls) THEN EngineCall("customWait", PLAYWRIGHT_PAGE, "")
    ELSE EngineCall("waitForLoadState", PLAYWRIGHT_PAGE, "networkidle")

\* goto on the page this, to url: one navigation to url; the readiness hook
\* only once the navigation has completed; then this; a failed navigation
\* fails the call and leaves the hook uncalled
GotoProtocol(this, url) ==
    LET navigation == EngineCall("goto", PLAYWRIGHT_PAGE, url)
        hook == ReadyHook(heap[this.at].class)
    IN  /\ task.pc = "page.goto" => Since = <<navigation>> /\ outcome = Pending
        /\ task.pc = "waitForReady" =>
              /\ Since = <<navigation, hook>>
              /\ dom.url = JStr(url)
              /\ outcome = Pending
        /\ task.pc = Idle =>
              \/ /\ outcome = Ok(this)
                 /\ Since = <<navigation, hook>>
                 /\ dom.url = JStr(url)
              \/ outcome = Thrown(NavigationError) /\ Since = <<navigation>>
              \/ outcome = Thrown(ReadyError) /\ Since = <<navigation, hook>>

\* C13 as stated: goto on a page with a declared route issues one
\* navigation to config.baseUrl + route, calls waitForReady only after it
\* completed, and resolves to the page; a failed navigation propagates
\* and waitForReady is not called.
C13_AsStated ==
    (GotoMade /\ RouteDeclared(heap[call.this.at].class) # {}) =>
        GotoProtocol(call.this,
                     Get(heap[call.this.at].config, "baseUrl").s
                       \o DeclaredRoute(heap[call.this.at].class).s)

\* C13 as amended: the same of a page whose declared route is not the
\* empty string.
C13_GotoProtocol ==
    (/\ GotoMade
     /\ RouteDeclared(heap[call.this.at].class) # {}
     /\ DeclaredRoute(heap[call.this.at].class) # JStr(<<>>)) =>
        GotoProtocol(call.this,
                     Get(heap[call.this.at].config, "baseUrl").s
                       \o DeclaredRoute(heap[call.this.at].class).s)

\* goto on a ParentPage with route /p has resolved to the page, after the
\* navigation and the wait for the load state
C13_Witness ==
    /\ GotoMade /\ heap[1].class = "ParentPage"
    /\ RouteDeclared("ParentPage") # {}
    /\ DeclaredRoute("ParentPage") = JStr(ROUTE_P)
    /\ task.pc = Idle
    /\ outcome = Ok(Ref(1))
    /\ Since = <<EngineCall("goto", PLAYWRIGHT_PAGE, URL_X \o ROUTE_P),
                 EngineCall("waitForLoadState", PLAYWRIGHT_PAGE, "networkidle")>>

\* the navigation of a page that overrides waitForReady has failed
C13_FailedNavigationReached ==
    /\ GotoMade /\ heap[1].class = "OtherPage"
    /\ outcome = Thrown(NavigationError)
    /\ Len(Since) = 1

\* the route that applies to cls: its own, else the nearest superclass's
RECURSIVE NearestRoute(_)
NearestRoute(cls) ==
    IF cls \notin PageClasses THEN Undefined
    ELSE IF RouteDeclared(cls) # {} THEN DeclaredRoute(cls)
    ELSE NearestRoute(Extends(cls))

\* goto failed with the error naming the class, before any navigation or
\* readiness wait
NoRouteFailure(this) ==
    /\ outcome = Thrown(NoPageDecorator(heap[this.at].class))
    /\ Since = <<>>
    /\ task.pc = Idle

C16_SuperclassSlotMaterialized ==
    /\ Constructed /\ call.class = "ChildPage"
    /\ Registrations("ChildPage", "header") = {}
    /\ Registrations("ParentPage", "header") # {}
    /\ HasKey(JObj(heap[1].slots), "header")
    /\ heap[Get(JObj(heap[1].slots), "header").at].class = "HeaderComponent"

(***************************************************************************)
(* Component collections                                                   *)
(*                                                                         *)
(* The repeated region is the sequence of elements that the collection's   *)
(* locator matches at the moment it is asked; the page changes it at any   *)
(* time.  A locator method (nth, first, last) derives a locator and asks   *)
(* the browser nothing; count and the actions do ask.                      *)
(***************************************************************************)
MaxElements == 3
MaxIndex == 3
MaxCalls == 2

\* the regions: up to MaxElements elements, named by numbers
RECURSIVE Upto(_)
Upto(n) == IF n = 0 THEN <<>> ELSE Append(Upto(n - 1), n)

Regions == {Upto(n) : n \in 0..MaxElements} \cup {Tail(Upto(MaxElements))}

\* locator.nth(index), locator.first(), locator.last()
LocatorNth(locator, index) ==
    Locator(Append(locator.steps, [op |-> "nth", index |-> index]))
LocatorFirst(locator) == Locator(Append(locator.steps, [op |-> "first"]))
LocatorLast(locator) == Locator(Append(locator.steps, [op |-> "last"]))
\* locator.filter(options)
LocatorFilter(locator, options) ==
    Locator(Append(locator.steps, [op |-> "filter", options |-> options]))

\* the elements a locator stands for when the region holds elements
RECURSIVE Resolve(_, _, _)
Resolve(steps, i, elements) ==
    IF i > Len(steps) THEN elements
    ELSE LET step == steps[i]
             next == CASE step.op = "locator" -> elements
                       [] step.op = "nth" ->
                            IF step.index + 1 \in 1..Len(elements)
                            THEN <<elements[step.index + 1]>> ELSE <<>>
                       [] step.op = "first" ->
                            IF elements = <<>> THEN <<>> ELSE <<elements[1]>>
                       [] step.op = "last" ->
                            IF elements = <<>> THEN <<>>
                            ELSE <<elements[Len(elements)]>>
                       [] step.op = "filter" ->
                            SelectSeq(elements,
                                      LAMBDA e : e \in step.options.hasText)
         IN  Resolve(steps, i + 1, next)

\* a question put to the browser about a locator, and the region as it was
\* when the browser answered
Query(op, on, region) == [op |-> op, on |-> on, region |-> region]

\* a locator derived from another, the browser not asked
Derived(op, on, to) == [op |-> op, on |-> on, to |-> to]

\* an action on a locator that matches no element
NotFound == [name |-> "TimeoutError", message |-> "waiting for locator"]
\* an action on a locator that matches several elements
StrictModeViolation == [name |-> "Error", message |-> "strict mode violation"]

\* an nth that counts positions from one
CollectionNthOneBased(collection, index) ==
    NewBaseComponent(collection.ComponentClass,
                     LocatorNth(collection.locator, index + 1),
                     collection.config, collection.page)

\* ComponentCollection.nth(index): the new instance
CollectionNth(collection, index) ==
    NewBaseComponent(collection.ComponentClass, LocatorNth(collection.locator, index),
                     collection.config, collection.page)

\* ComponentCollection.first()
CollectionFirst(collection) ==
    NewBaseComponent(collection.ComponentClass, LocatorFirst(collection.locator),
                     collection.config, collection.page)

\* a last that settles on the final position when it is called
CollectionLastAtCall(collection) ==
    NewBaseComponent(collection.ComponentClass,
                     LocatorNth(collection.locator, Len(dom.elements) - 1),
                     collection.config, collection.page)

\* ComponentCollection.last()
CollectionLast(collection) ==
    NewBaseComponent(collection.ComponentClass, LocatorLast(collection.locator),
                     collection.config, collection.page)

\* ComponentCollection.filter(options): the new collection
CollectionFilter(collection, options) ==
    NewComponentCollection(LocatorFilter(collection.locator, options),
                           collection.ComponentClass, collection.config,
                           collection.page)

\* the options of filter: hasText, given by the elements whose text it
\* matches
FilterOptions == {[hasText |-> {}], [hasText |-> {2}], [hasText |-> {1, 3}]}

(***************************************************************************)
(* The Proxy around a collection: property keys are strings (sequences of  *)
(* characters) or symbols; collection[i] reaches the get trap with the     *)
(* key String(i)                                                           *)
(***************************************************************************)
DecimalDigits == {"0", "1", "2", "3", "4", "5", "6", "7", "8", "9"}

DigitValue(c) == CHOOSE n \in 0..9 : IndexKey(n) = c

\* a test that lets a sign through: /^-?\d+$/
DigitsOnlySigned(s) ==
    LET digits == IF s # <<>> /\ s[1] = "-" THEN Tail(s) ELSE s
    IN  digits # <<>> /\ \A i \in 1..Len(digits) : digits[i] \in DecimalDigits

\* /^\d+$/.test(prop)
DigitsOnly(s) == s # <<>> /\ \A i \in 1..Len(s) : s[i] \in DecimalDigits

\* the number the leading digits of s spell, after acc
RECURSIVE ParseDigits(_, _, _)
ParseDigits(s, i, acc) ==
    IF i > Len(s) \/ s[i] \notin DecimalDigits THEN acc
    ELSE ParseDigits(s, i + 1, 10 * acc + DigitValue(s[i]))

\* parseInt(prop, 10) of a string that holds a digit after an optional sign
parseInt(s) ==
    IF s[1] = "-" THEN 0 - ParseDigits(s, 2, 0) ELSE ParseDigits(s, 1, 0)

SymbolAsyncIterator == [t |-> "symbol", description |-> "Symbol.asyncIterator"]

\* a method of the class, as a value
Method(name) == [t |-> "function", name |-> name]

COUNT == <<"c", "o", "u", "n", "t">>
LOCATOR == <<"l", "o", "c", "a", "t", "o", "r">>

\* Reflect.get(target, prop, receiver): a field of the collection, a
\* method of its class, else undefined
ReflectGet(target, prop) ==
    CASE prop = SymbolAsyncIterator -> Method("[Symbol.asyncIterator]")
      [] prop = JStr(COUNT) -> Method("count")
      [] prop = JStr(LOCATOR) -> target.locator
      [] OTHER -> Undefined

\* the keys the collection is asked for
PropertyKeys ==
    {JStr(<<IndexKey(i)>>) : i \in 0..MaxIndex}
      \cup {JStr(<<"0", "1">>), JStr(<<"-", "1">>), JStr(<<"1", ".", "5">>),
            JStr(<<>>), JStr(COUNT), JStr(LOCATOR), SymbolAsyncIterator}

ITEM_SELECTOR == ".item"

InitCollection ==
    /\ NoConfig
    /\ call = NoCall
    /\ outcome = NoResult
    /\ metadata = EmptyMetadata
    /\ \E config \in PageConfigs :
          heap = <<NewComponentCollection(PageLocator(ITEM_SELECTOR), "ItemComponent",
                                          config, PLAYWRIGHT_PAGE)>>
    /\ dom \in {[elements |-> r] : r \in Regions}
    /\ log = <<>>
    /\ task = [pc |-> Idle, calls |-> 0]

\* the page adds or removes elements of the region
DomChange(region) ==
    /\ dom.elements # region
    /\ dom' = [elements |-> region]
    /\ UNCHANGED <<files, environ, input, reads, metadata, heap, log, task, call, outcome>>

\* a call may begin: nothing is in flight and the budget of calls is not
\* used up
MayCall == task.pc = Idle /\ task.calls < MaxCalls

Called == [task EXCEPT !.calls = @ + 1]

\* what a call starts from: the log and the heap as they are
Began(op) == [op |-> op, since |-> Len(log), objects |-> Len(heap)]

\* the elements the collection's locator matches now
Matched(locator) == Resolve(locator.steps, 1, dom.elements)

\* a count that answers from the first answer it got
CountCallCached ==
    /\ MayCall
    /\ call' = Began("count")
    /\ task' = Called
    /\ LET asked == {i \in 1..Len(log) : log[i].op = "count"}
           first == CHOOSE i \in asked : \A j \in asked : i <= j
       IN  IF asked = {}
           THEN /\ log' = Append(log, Query("count", heap[1].locator,
                                            Matched(heap[1].locator)))
                /\ outcome' = Ok(JNum(Len(Matched(heap[1].locator))))
           ELSE /\ log' = log
                /\ outcome' = Ok(JNum(Len(Resolve(log[first].on.steps, 1,
                                                    log[first].region))))
    /\ UNCHANGED <<files, environ, input, reads, metadata, heap, dom>>

\* collection.count(): this.locator.count()
CountCall ==
    /\ MayCall
    /\ call' = Began("count")
    /\ task' = Called
    /\ log' = Append(log, Query("count", heap[1].locator, dom.elements))
    /\ outcome' = Ok(JNum(Len(Matched(heap[1].locator))))
    /\ UNCHANGED <<files, environ, input, reads, metadata, heap, dom>>

RangeError == [name |-> "RangeError", message |-> "index out of range"]

\* an nth that asks for the count and refuses an index beyond it
NthCallBoundsChecked(index) ==
    /\ MayCall
    /\ call' = Began("nth") @@ [index |-> index]
    /\ task' = Called
    /\ log' = Append(log, Query("count", heap[1].locator, dom.elements))
    /\ IF index < Len(Matched(heap[1].locator))
       THEN /\ heap' = Append(heap, CollectionNth(heap[1], index))
            /\ outcome' = Ok(Ref(Len(heap) + 1))
       ELSE /\ heap' = heap
            /\ outcome' = Thrown(RangeError)
    /\ UNCHANGED <<files, environ, input, reads, metadata, dom>>

\* collection.nth(index)
NthCall(index) ==
    /\ MayCall
    /\ call' = Began("nth") @@ [index |-> index]
    /\ task' = Called
    /\ heap' = Append(heap, CollectionNth(heap[1], index))
    /\ log' = Append(log, Derived("nth", heap[1].locator,
                                  CollectionNth(heap[1], index).locator))
    /\ outcome' = Ok(Ref(Len(heap) + 1))
    /\ UNCHANGED <<files, environ, input, reads, metadata, dom>>

\* collection.first()
FirstCall ==
    /\ MayCall
    /\ call' = Began("first")
    /\ task' = Called
    /\ heap' = Append(heap, CollectionFirst(heap[1]))
    /\ log' = Append(log, Derived("first", heap[1].locator,
                                  CollectionFirst(heap[1]).locator))
    /\ outcome' = Ok(Ref(Len(heap) + 1))
    /\ UNCHANGED <<files, environ, input, reads, metadata, dom>>

\* collection.last()
LastCall ==
    /\ MayCall
    /\ call' = Began("last")
    /\ task' = Called
    /\ heap' = Append(heap, CollectionLast(heap[1]))
    /\ log' = Append(log, Derived("last", heap[1].locator,
                                  CollectionLast(heap[1]).locator))
    /\ outcome' = Ok(Ref(Len(heap) + 1))
    /\ UNCHANGED <<files, environ, input, reads, metadata, dom>>

\* an action (a click) on the locator of the component at ref: it needs
\* exactly one element
ActCall(ref) ==
    /\ MayCall
    /\ heap[ref].kind = "component"
    /\ call' = Began("click") @@ [this |-> Ref(ref)]
    /\ task' = Called
    /\ LET matched == Matched(heap[ref].locator) IN
          /\ log' = Append(log, Query("click", heap[ref].locator, dom.elements))
          /\ outcome' = IF matched = <<>> THEN Thrown(NotFound)
                        ELSE IF Len(matched) > 1 THEN Thrown(StrictModeViolation)
                        ELSE Ok(JNum(matched[1]))
    /\ UNCHANGED <<files, environ, input, reads, metadata, heap, dom>>

\* the loop of the async iterator at "i < count": yield this.nth(i) and
\* suspend, or finish; logged is the log so far
IteratorLoop(logged, calls, count, i, items) ==
    IF i < count
    THEN /\ heap' = Append(heap, CollectionNth(heap[1], i))
         /\ log' = Append(logged, Derived("nth", heap[1].locator,
                                          CollectionNth(heap[1], i).locator))
         /\ task' = [pc |-> "yielded", calls |-> calls, count |-> count,
                     i |-> i + 1, items |-> Append(items, Ref(Len(heap) + 1))]
         /\ outcome' = Pending
    ELSE /\ heap' = heap
         /\ log' = logged
         /\ task' = [pc |-> Idle, calls |-> calls]
         /\ outcome' = Ok(items)

\* the iterator at its first next(): const count = await this.count(), then
\* the loop from i = 0
IteratorStart(calls) ==
    LET saw == Matched(heap[1].locator)
    IN  IteratorLoop(Append(log, Query("count", heap[1].locator, dom.elements)),
                     calls, Len(saw), 0, <<>>)

\* collection[Symbol.asyncIterator](): the iterator is created, nothing of
\* its body has run
IteratorCall ==
    /\ MayCall
    /\ call' = Began("iterate")
    /\ task' = [pc |-> "created", calls |-> task.calls + 1]
    /\ outcome' = Pending
    /\ UNCHANGED <<files, environ, input, reads, metadata, heap, dom, log>>

\* the first next() on the iterator
RequestFirst ==
    /\ task.pc = "created"
    /\ IteratorStart(task.calls)
    /\ UNCHANGED <<files, environ, input, reads, metadata, dom, call>>

\* a next() that asks for the count again and goes by the new answer
RequestNextRequerying ==
    /\ task.pc = "yielded"
    /\ IteratorLoop(Append(log, Query("count", heap[1].locator, dom.elements)),
                    task.calls, Len(Matched(heap[1].locator)), task.i, task.items)
    /\ UNCHANGED <<files, environ, input, reads, metadata, dom, call>>

\* a later next() on the iterator: i++ and the loop again
RequestNext ==
    /\ task.pc = "yielded"
    /\ IteratorLoop(log, task.calls, task.count, task.i, task.items)
    /\ UNCHANGED <<files, environ, input, reads, metadata, dom, call>>

\* collection.all(): for await (const item of this) items.push(item), up
\* to the first suspension; the later rounds are those of the iterator
AllCall ==
    /\ MayCall
    /\ call' = Began("all")
    /\ IteratorStart(task.calls + 1)
    /\ UNCHANGED <<files, environ, input, reads, metadata, dom>>

\* collection[prop]: the get trap of the Proxy
GetCall(prop) ==
    /\ MayCall
    /\ call' = Began("get") @@ [prop |-> prop]
    /\ task' = Called
    /\ IF prop.t = "str" /\ DigitsOnly(prop.s)
       THEN /\ heap' = Append(heap, CollectionNth(heap[1], parseInt(prop.s)))
            /\ log' = Append(log, Derived("nth", heap[1].locator,
                                          CollectionNth(heap[1],
                                                        parseInt(prop.s)).locator))
            /\ outcome' = Ok(Ref(Len(heap) + 1))
       ELSE /\ outcome' = Ok(ReflectGet(heap[1], prop))
            /\ UNCHANGED <<heap, log>>
    /\ UNCHANGED <<files, environ, input, reads, metadata, dom>>

\* a filter that narrows the collection it is called on
FilterCallInPlace(options) ==
    /\ MayCall
    /\ call' = Began("filter") @@ [options |-> options]
    /\ task' = Called
    /\ heap' = [heap EXCEPT ![1] = CollectionFilter(heap[1], options)]
    /\ log' = Append(log, Derived("filter", heap[1].locator,
                                  CollectionFilter(heap[1], options).locator))
    /\ outcome' = Ok(Ref(1))
    /\ UNCHANGED <<files, environ, input, reads, metadata, dom>>

\* collection.filter(options)
FilterCall(options) ==
    /\ MayCall
    /\ call' = Began("filter") @@ [options |-> options]
    /\ task' = Called
    /\ heap' = Append(heap, CollectionFilter(heap[1], options))
    /\ log' = Append(log, Derived("filter", heap[1].locator,
                                  CollectionFilter(heap[1], options).locator))
    /\ outcome' = Ok(Ref(Len(heap) + 1))
    /\ UNCHANGED <<files, environ, input, reads, metadata, dom>>

NextCollection ==
    \/ \E region \in Regions : DomChange(region)
    \/ CountCall
    \/ \E index \in 0..MaxIndex : NthCall(index)
    \/ FirstCall
    \/ LastCall
    \/ \E prop \in PropertyKeys : GetCall(prop)
    \/ \E options \in FilterOptions : FilterCall(options)
    \/ \E ref \in DOMAIN heap : ActCall(ref)
    \/ IteratorCall
    \/ RequestFirst
    \/ RequestNext
    \/ AllCall

SpecCollection == InitCollection /\ [][NextCollection]_vars

(***************************************************************************)
(* What a collection is to do                                              *)
(***************************************************************************)
TheCollection == heap[1]

\* obj is an instance of the collection's child type over the capability
\* narrowed by step, with the collection's config and page
InstanceAt(obj, step) ==
    /\ obj.kind = "component"
    /\ obj.class = TheCollection.ComponentClass
    /\ obj.locator = Locator(Append(TheCollection.locator.steps, step))
    /\ obj.config = TheCollection.config
    /\ obj.page = TheCollection.page

Position(i) == [op |-> "nth", index |-> i]

Asked(seq) == {i \in 1..Len(seq) : seq[i].op \in QueryOps}

LastStep(locator) == locator.steps[Len(locator.steps)]

\* C17: nth(i) returns a child-type instance for every index, in range or
\* not, without querying the region and without raising; for i at or
\* beyond the live element count the failure arises only when an action is
\* performed on the instance.
C17_NthDefersFailure ==
    /\ call.op = "nth" =>
          /\ outcome.ok
          /\ InstanceAt(heap[outcome.val.at], Position(call.index))
          /\ Asked(Since) = {}
    /\ (call.op = "click" /\ LastStep(heap[call.this.at].locator).op = "nth") =>
          LET i == LastStep(heap[call.this.at].locator).index
              region == Since[1].region
          IN  IF i >= Len(region) THEN outcome = Thrown(NotFound)
              ELSE outcome = Ok(JNum(region[i + 1]))

\* nth(MaxIndex) was given an instance although the region never holds that
\* many elements, and a click on the instance has now failed
C17_Witness ==
    /\ call.op = "click"
    /\ LastStep(heap[call.this.at].locator) = Position(MaxIndex)
    /\ \E i \in 1..call.since : log[i].op = "nth"
    /\ outcome = Thrown(NotFound)

Iterating == call.op \in {"iterate", "all"}

CountsAsked(seq) == {i \in 1..Len(seq) : seq[i].op = "count"}

\* C18: an iteration asks for the count once, when the first element is
\* requested, and yields that many instances whatever happens to the
\* region during the scan: after a shrink the trailing instances are still
\* yielded and nothing is raised, after a growth the added elements are not
\* yielded; a new iteration asks again.
C18_CountAskedOnce ==
    Iterating =>
        IF task.pc = "created" THEN Since = <<>> /\ outcome = Pending
        ELSE /\ Since # <<>> /\ CountsAsked(Since) = {1}
             /\ task.pc = "yielded" =>
                   /\ outcome = Pending
                   /\ Len(task.items) \in 1..Len(Since[1].region)
             /\ task.pc = Idle =>
                   /\ outcome.ok
                   /\ Len(outcome.val) = Len(Since[1].region)

\* two of three instances are yielded, the region has shrunk to one
\* element, and the scan is not over
C18_Witness ==
    /\ call.op = "iterate" /\ task.pc = "yielded"
    /\ Len(Since[1].region) = 3
    /\ Len(task.items) = 2
    /\ Len(dom.elements) = 1

\* a second iteration has asked for the count again and got another answer
C18_SecondIterationReached ==
    /\ call.op = "iterate" /\ task.pc = Idle /\ outcome.ok
    /\ \E i \in 1..call.since :
          log[i].op = "count" /\ Len(log[i].region) # Len(outcome.val)

\* the positions of the instances at refs
Positions(refs) == [k \in 1..Len(refs) |-> LastStep(heap[refs[k].at].locator)]

\* C19: with the region unchanged during the scan, iterating a collection
\* of n elements yields n instances bound to positions 0..n-1 in that
\* order and all() returns the same; for n = 0 both give nothing and
\* neither raises.
C19_PositionsInOrder ==
    (Iterating /\ task.pc = Idle /\ Since[1].region = dom.elements) =>
        /\ outcome.ok
        /\ Positions(outcome.val) = [k \in 1..Len(dom.elements) |-> Position(k - 1)]
        /\ \A k \in 1..Len(outcome.val) :
              InstanceAt(heap[outcome.val[k].at], Position(k - 1))

\* all() over three elements has returned three instances
C19_Witness ==
    /\ call.op = "all" /\ task.pc = Idle
    /\ dom.elements = Upto(3) /\ Since[1].region = dom.elements
    /\ outcome.ok /\ Len(outcome.val) = 3

C19_EmptyReached ==
    /\ call.op = "iterate" /\ task.pc = Idle
    /\ Since[1].region = <<>> /\ dom.elements = <<>>
    /\ outcome = Ok(<<>>)

\* C20: the collection caches nothing: every count() asks the browser and
\* gives the number of elements in the region at that moment, and every
\* nth, first and last constructs a new instance.
C20_NothingCached ==
    /\ call.op = "count" =>
          /\ Len(Since) = 1 /\ Since[1].op = "count"
          /\ Since[1].on = TheCollection.locator
          /\ outcome = Ok(JNum(Len(Since[1].region)))
    /\ call.op \in {"nth", "first", "last"} =>
          /\ outcome.ok
          /\ Len(heap) = call.objects + 1
          /\ outcome.val = Ref(Len(heap))

\* a second count() after the region changed gives the new count
C20_Witness ==
    /\ call.op = "count"
    /\ \E i \in 1..call.since :
          log[i].op = "count" /\ JNum(Len(log[i].region)) # outcome.val

\* nth(0) twice: two instances
C20_TwoInstancesReached ==
    /\ call.op = "nth" /\ call.index = 0
    /\ Len(heap) = 3
    /\ heap[2] = heap[3]
    /\ outcome.val = Ref(3)

(***************************************************************************)
(* What a registration leaves alone                                        *)
(***************************************************************************)
\* the step is a registration on target
Registers(target) ==
    /\ log' # log
    /\ call'.op = "Component"
    /\ call'.target = target

\* classes with the same superclass as c
Siblings(c) == {other \in PageClasses \ {c} : Extends(other) = Extends(c)}

\* what lookup gives for a class: every slot by name, and the whole map
LookupsOf(meta, target) ==
    [byName |-> [slot \in Slots |-> getComponentMetadata(meta, target, slot)],
     all |-> getComponentMetadataAll(meta, target)]

\* C26: a registration on a subclass leaves what lookup gives for its
\* superclasses and for its sibling subclasses as it was before the
\* registration.
C26_SuperclassMapUntouched ==
    [][\A target \in PageClasses :
          Registers(target) =>
              \A other \in (Ancestors(target) \cap PageClasses) \cup Siblings(target) :
                  LookupsOf(metadata', other) = LookupsOf(metadata, other)]_vars

\* C26 holds of a registration made while no class above the subclass has
\* a map
C26_NoMapAbove ==
    [][\A target \in PageClasses :
          (Registers(target) /\ GetMetadata(metadata.own, Extends(target)) = Undefined) =>
              \A other \in (Ancestors(target) \cap PageClasses) \cup Siblings(target) :
                  LookupsOf(metadata', other) = LookupsOf(metadata, other)]_vars

\* a subclass was registered after its superclass
C26_SubclassAfterSuperclassReached ==
    /\ Len(log) = 2
    /\ log[1].target = "ParentPage" /\ log[1].propertyKey = "header"
    /\ log[2].target = "ChildPage" /\ log[2].propertyKey = "items"
    /\ call = log[2]

(***************************************************************************)
(* Slots without a child type, routes that are the empty string            *)
(***************************************************************************)
\* the slots class cls declares with no child type, given or derivable
UntypedSlots(cls) ==
    {slot \in AllSlots : /\ Registrations(cls, slot) # {}
                         /\ Declared(cls, slot).type = Undefined}

\* C29: constructing a page whose class declares a slot with no child type
\* raises no error, leaves that slot unassigned and materializes every
\* other declared slot.
C29_UntypedSlotSkipped ==
    (call.op = "new" /\ UntypedSlots(call.class) # {}) =>
        /\ outcome.ok
        /\ LET this == heap[outcome.val.at] IN
              /\ this.class = call.class
              /\ Keys(JObj(this.slots)) = TypedSlots(call.class)
              /\ \A slot \in UntypedSlots(call.class) : ~HasKey(JObj(this.slots), slot)
        /\ SlotsMaterialized(outcome.val)
        /\ Len(heap) = 1 + Cardinality(TypedSlots(call.class))

\* a page whose first declared slot has no type and whose three others have
C29_Witness ==
    /\ Constructed /\ call.class = "OtherPage"
    /\ UntypedSlots("OtherPage") = {"extra"}
    /\ TypedSlots("OtherPage") = {"header", "search", "items"}
    /\ Registrations("OtherPage", "extra") = {1}
    /\ Keys(JObj(heap[1].slots)) = {"header", "search", "items"}
    /\ Len(Since) = 4

\* a page with no slot but the untyped one
C29_OnlyUntypedReached ==
    /\ Constructed /\ call.class = "OtherPage"
    /\ UntypedSlots("OtherPage") = {"extra"}
    /\ TypedSlots("OtherPage") = {}
    /\ heap[1].slots = <<>> /\ Len(heap) = 1

\* C30: goto on a page whose class declares the empty string as its route
\* fails with the no-route error naming the class, before any navigation,
\* as for a class with no route at all.
C30_EmptyRouteIsNoRoute ==
    (/\ GotoMade
     /\ RouteDeclared(heap[call.this.at].class) # {}
     /\ DeclaredRoute(heap[call.this.at].class) = JStr(<<>>)) =>
        /\ NoRouteFailure(call.this)
        /\ dom = Blank
        /\ \A i \in 1..Len(log) : log[i].op # "goto"

\* goto on an OtherPage declared with @Page('') has failed
C30_Witness ==
    /\ GotoMade /\ heap[1].class = "OtherPage"
    /\ RouteDeclared("OtherPage") # {}
    /\ DeclaredRoute("OtherPage") = JStr(<<>>)
    /\ outcome = Thrown(NoPageDecorator("OtherPage"))
    /\ task.gotos = 2

(***************************************************************************)
(* A plain object merged over a value that is not one                      *)
(***************************************************************************)
\* the keys at which the first layer holds a value that is not a plain
\* object, the second a plain object, and the third nothing
ObjectOverNonObject ==
    {k \in Keys(input[1]) \cap Keys(input[2]) :
        /\ ~IsPlainObject(Get(input[1], k))
        /\ IsPlainObject(Get(input[2], k))
        /\ ~HasKey(input[3], k)}

\* C25: where the accumulated value at a key is not a plain object and the
\* incoming layer holds a plain object, the merged value at the key is the
\* incoming object, with no key that comes from the earlier value.
C25_ObjectReplacesNonObject ==
    Merged => \A k \in ObjectOverNonObject :
                  /\ Get(outcome.val, k) = Get(input[2], k)
                  /\ Keys(Get(outcome.val, k)) \subseteq Keys(Get(input[2], k))

\* the same where the earlier value is a number
C25_ObjectReplacesNumber ==
    Merged => \A k \in ObjectOverNonObject :
                  Get(input[1], k).t = "num" => Get(outcome.val, k) = Get(input[2], k)

\* an object was merged over a number
C25_ObjectOverNumberReached ==
    /\ Merged
    /\ "t" \in ObjectOverNonObject
    /\ Get(input[1], "t") = JNum(1)
    /\ Get(input[2], "t") = JObj(<<Entry("a", JNum(2)), Entry("b", JNum(2))>>)
    /\ Get(outcome.val, "t") = Get(input[2], "t")

(***************************************************************************)
(* Tokens in values a higher layer replaces                                *)
(***************************************************************************)
\* every applicable layer file of the call is there to be merged: none
\* unparseable, the site file present
LayersLoad ==
    /\ ReadFile(files, DefaultsPath).kind # "malformed"
    /\ ReadFile(files, SiteConfigPath(call.options.site)).kind = "json"
    /\ EnvGiven(call.options.env) =>
          ReadFile(files, EnvConfigPath(call.options.site, call.options.env)).kind
              # "malformed"
    /\ ReadFile(files, LocalConfigPath).kind # "malformed"

\* the values of v that are not plain objects, at any depth
RECURSIVE Leaves(_)
Leaves(v) ==
    IF IsPlainObject(v)
    THEN UNION {Leaves(v.entries[i].v) : i \in 1..Len(v.entries)}
    ELSE {v}

\* the values that the merge of objs keeps: for each key that of the
\* highest layer defining it, and for a key that layer holds as an object
\* the same inside the objects the layers hold there
RECURSIVE Winners(_)
Winners(objs) ==
    UNION {LET vs == ValuesAt(objs, k) IN
           IF IsPlainObject(vs[Len(vs)]) THEN Winners(ObjectSuffix(vs))
           ELSE {vs[Len(vs)]} : k \in AllKeys(objs)}

\* v holds a required token whose variable is not set
RequiredUnset(v) == ~interpolateEnvVars(v).ok

\* some layer holds a required token of an unset variable, and no value
\* that the merge keeps does
TokenOnlyInReplaced ==
    /\ \E i \in 1..4 : \E v \in Leaves(LayersOf(call.options)[i]) : RequiredUnset(v)
    /\ \A w \in Winners(LayersOf(call.options)) : ~RequiredUnset(w)

\* C27: a required token of an unset variable in a value that a higher
\* layer replaces does not fail resolve: interpolation runs over the merged
\* result only, so that the call fails on a missing variable exactly when
\* a value that the merge keeps holds the token.
C27_ReplacedTokenNotEvaluated ==
    (Resolved /\ LayersLoad) =>
        /\ TokenOnlyInReplaced =>
              (outcome.ok \/ outcome.error.name = "ZodError")
        /\ (\E w \in Winners(LayersOf(call.options)) : RequiredUnset(w)) =>
              outcome = Thrown(MissingEnvVarError(VarU))
        /\ (\A w \in Winners(LayersOf(call.options)) : ~RequiredUnset(w)) =>
              outcome = SchemaParse(interpolateEnvVars(
                                      deepMerge(LayersOf(call.options))).val)

\* the site layer's baseUrl is ${U}, U is not set, the environment layer
\* replaces baseUrl, and resolve gave a configuration with that baseUrl
C27_Witness ==
    /\ Resolved /\ EnvGiven(call.options.env)
    /\ environ[VarU] = Unset
    /\ SiteFile.kind = "json" /\ Get(SiteFile.value, "baseUrl") = JStr(TOKEN_U)
    /\ TokenOnlyInReplaced
    /\ outcome.ok
    /\ Get(outcome.val, "baseUrl") = JStr(URL_E)

\* the token sits inside an object two layers merge: the site's
\* credentials.password is ${U}, the local layer gives another password
C27_NestedReplacedReached ==
    /\ Resolved /\ environ[VarU] = Unset
    /\ SiteFile.kind = "json" /\ IsObjectAt(SiteFile.value, "credentials")
    /\ Get(Get(SiteFile.value, "credentials"), "password") = JStr(TOKEN_U)
    /\ outcome.ok
    /\ Get(Get(outcome.val, "credentials"), "password") = JStr(PASS)

(***************************************************************************)
(* isEnabledSync over layer files that cannot be read                      *)
(***************************************************************************)
Unreadable(p) == ReadFile(files, p).kind \in {"absent", "malformed"}

\* the layers of the call that hold enabled: false
DisablingLayers == Disabling(CheckedLayers(call.options))

C28_MissingSiteDisabledReached ==
    /\ EnabledChecked
    /\ SiteFile.kind = "absent"
    /\ outcome = Ok(Disabled(LocalDisabledReason))

\* no layer file can be read
C28_NothingReadableReached ==
    /\ EnabledChecked /\ EnvGiven(call.options.env)
    /\ \A p \in LayerPaths : Unreadable(p)
    /\ SiteFile.kind = "absent" /\ files[LocalConfigPath].kind = "malformed"
    /\ outcome = Ok(Enabled)

(***************************************************************************)
(* Successive resolve calls on one loader, with layer files written and    *)
(* variable U set or unset between them.  The log keeps what each call     *)
(* gave and read, and the changes made.                                    *)
(***************************************************************************)
MaxResolves == 2        \* resolve calls in a behaviour
MaxChanges == 1         \* files written or variables set between two calls

\* what each layer file may hold
ReloadFiles(p) ==
    CASE p = DefaultsPath ->
           {FileAbsent} \cup {FileJson(v) : v \in {d \in DefaultsContents :
                                  HasKey(d, "timeouts") /\ ~HasKey(d, "baseUrl")}}
      [] p = SiteConfigPath(ACME) ->
           {FileAbsent, FileMalformed}
             \cup {FileJson(v) : v \in {c \in SiteContents :
                      ~HasKey(c, "timeouts") \/ HasKey(c, "credentials")}}
      [] p = EnvConfigPath(ACME, STAGING) ->
           {FileAbsent} \cup {FileJson(v) : v \in {e \in EnvContents :
                                  HasKey(e, "baseUrl")}}
      [] p = LocalConfigPath ->
           {FileAbsent} \cup {FileJson(v) : v \in {l \in LocalContents :
                                  ~EnabledIsFalse(l)}}

ReloadVariables == {Unset, SetTo(URL_U)}

InitReload ==
    /\ files \in {fs \in FileSystems : \A p \in LayerPaths : fs[p] \in ReloadFiles(p)}
    /\ environ \in [{VarU} -> ReloadVariables]
    /\ input = <<>>
    /\ call = NoCall
    /\ outcome = NoResult
    /\ reads = <<>>
    /\ NoCore

\* the resolve calls made so far, as positions in log
ResolvesMade == {i \in 1..Len(log) : log[i].op = "resolve"}

\* the changes made since the last resolve call
ChangesMade == {i \in 1..Len(log) : \A j \in ResolvesMade : j < i}

\* a change is made after a call and before another
MayChange ==
    /\ Cardinality(ResolvesMade) \in 1..(MaxResolves - 1)
    /\ Cardinality(ChangesMade) < MaxChanges

\* a loader that keeps the configuration it resolved for a site and an
\* environment and hands it out again
ResolveCallCached(env) ==
    LET options == [site |-> ACME, env |-> env]
        kept == {i \in ResolvesMade : log[i].options = options}
        r == IF kept = {} THEN resolve(files, options)
             ELSE Returned(log[First(kept)].result, <<>>) IN
    /\ Cardinality(ResolvesMade) < MaxResolves
    /\ call' = [op |-> "resolve", options |-> options]
    /\ outcome' = r.result
    /\ reads' = r.reads
    /\ log' = Append(log, [op |-> "resolve", options |-> options,
                           result |-> r.result, reads |-> r.reads])
    /\ UNCHANGED <<files, environ, input, metadata, heap, dom, task>>

\* await loader.resolve({ site, env }) on the one loader: the loader holds
\* its three paths and nothing else
ResolveCallAgain(env) ==
    LET options == [site |-> ACME, env |-> env]
        r == resolve(files, options) IN
    /\ Cardinality(ResolvesMade) < MaxResolves
    /\ call' = [op |-> "resolve", options |-> options]
    /\ outcome' = r.result
    /\ reads' = r.reads
    /\ log' = Append(log, [op |-> "resolve", options |-> options,
                           result |-> r.result, reads |-> r.reads])
    /\ UNCHANGED <<files, environ, input, metadata, heap, dom, task>>

\* a layer file is written, or removed
WriteFile(p, f) ==
    /\ MayChange
    /\ f # files[p]
    /\ files' = [files EXCEPT ![p] = f]
    /\ call' = [op |-> "writeFile", path |-> p]
    /\ outcome' = Ok(Undefined)
    /\ reads' = <<>>
    /\ log' = Append(log, [op |-> "writeFile", path |-> p, file |-> f])
    /\ UNCHANGED <<environ, input, metadata, heap, dom, task>>

\* process.env.U is set, or deleted
SetEnv(v) ==
    /\ MayChange
    /\ v # environ[VarU]
    /\ environ' = [environ EXCEPT ![VarU] = v]
    /\ call' = [op |-> "setenv", varName |-> VarU]
    /\ outcome' = Ok(Undefined)
    /\ reads' = <<>>
    /\ log' = Append(log, [op |-> "setenv", varName |-> VarU, value |-> v])
    /\ UNCHANGED <<files, input, metadata, heap, dom, task>>

NextReload ==
    \/ \E env \in {NoEnv, STAGING} : ResolveCallAgain(env)
    \/ \E p \in LayerPaths : \E f \in ReloadFiles(p) : WriteFile(p, f)
    \/ \E v \in ReloadVariables : SetEnv(v)

SpecReload == InitReload /\ [][NextReload]_vars

(***************************************************************************)
(* What a second resolve is to give                                        *)
(***************************************************************************)
\* the layer files that apply to a call, in the order of the layers
ApplicablePaths(options) ==
    <<DefaultsPath, SiteConfigPath(options.site)>>
      \o (IF EnvGiven(options.env) THEN <<EnvConfigPath(options.site, options.env)>>
          ELSE <<>>)
      \o <<LocalConfigPath>>

\* the applicable files that stop a call: an unparseable one, a missing
\* site file
Stopping(paths) ==
    {i \in 1..Len(paths) :
        \/ ReadFile(files, paths[i]).kind = "malformed"
        \/ /\ ReadFile(files, paths[i]).kind = "absent"
           /\ paths[i] = SiteConfigPath(call.options.site)}

\* C24: every resolve call reads the applicable layer files anew, each
\* once, in the order defaults, site, environment, local, and gives what
\* the files and the variables hold at the time of the call, whatever an
\* earlier call on the same loader read and gave.
C24_EveryCallRereads ==
    Resolved =>
        LET paths == ApplicablePaths(call.options) IN
        /\ log[Len(log)].result = outcome
        /\ reads = SubSeq(paths, 1, IF Stopping(paths) = {} THEN Len(paths)
                                    ELSE First(Stopping(paths)))
        /\ outcome.ok =>
              /\ Stopping(paths) = {}
              /\ SchemaKeysByPrecedence(LayersOf(call.options), outcome.val)
        /\ Stopping(paths) # {} =>
              LET p == paths[First(Stopping(paths))] IN
              outcome = Thrown(IF ReadFile(files, p).kind = "absent"
                               THEN SiteConfigNotFound(p) ELSE JsonSyntaxError)
        /\ (Stopping(paths) = {}
              /\ \E w \in Winners(LayersOf(call.options)) : RequiredUnset(w)) =>
              outcome = Thrown(MissingEnvVarError(VarU))

\* a layer file was written between two calls for the same site and
\* environment, and the second call gave another configuration
C24_Witness ==
    /\ Resolved /\ Len(log) = 3
    /\ log[1].op = "resolve" /\ log[1].options = call.options
    /\ log[2].op = "writeFile"
    /\ log[1].result.ok /\ outcome.ok
    /\ log[1].result # outcome
    /\ reads = ApplicablePaths(call.options)
    /\ log[1].reads = reads

\* U was set between two calls, and the second gave its value
C24_VariableSetReached ==
    /\ Resolved /\ Len(log) = 3
    /\ log[1].op = "resolve" /\ log[1].options = call.options
    /\ log[2].op = "setenv" /\ log[2].value = SetTo(URL_U)
    /\ log[1].result.ok /\ outcome.ok
    /\ Get(log[1].result.val, "baseUrl") = JStr(URL_D)
    /\ Get(outcome.val, "baseUrl") = JStr(URL_U)

\* the site file was removed between two calls, and the second failed
C24_SiteRemovedReached ==
    /\ Resolved /\ Len(log) = 3
    /\ log[1].op = "resolve" /\ log[1].result.ok
    /\ log[2].op = "writeFile" /\ log[2].file = FileAbsent
    /\ outcome = Thrown(SiteConfigNotFound(SiteConfigPath(ACME)))

(***************************************************************************)
(* Indexed access, first and last, filter                                  *)
(***************************************************************************)
\* the key collection[i] reaches the trap with, for an index of one digit
Decimal(i) == JStr(<<IndexKey(i)>>)

\* keys that are not strings of decimal digits
NotDigits(prop) ==
    \/ prop.t # "str"
    \/ prop.s = <<>>
    \/ \E i \in 1..Len(prop.s) : prop.s[i] \notin DecimalDigits

\* what a key that is no index gives on a collection: its locator field,
\* its count method, its iterator method, nothing for a key it has not
OrdinaryProperty(prop) ==
    CASE prop = JStr(LOCATOR) -> TheCollection.locator
      [] prop = JStr(COUNT) -> [t |-> "function", name |-> "count"]
      [] prop = SymbolAsyncIterator -> [t |-> "function", name |-> "[Symbol.asyncIterator]"]
      [] OTHER -> Undefined

\* C21: collection[i] for a non-negative integer i gives what nth(i) gives:
\* a new instance of the child type over position i with the collection's
\* config and page, the browser not asked; a key that is not a string of
\* decimal digits is not routed to nth and gives the ordinary property.
C21_IndexIsNth ==
    call.op = "get" =>
        /\ outcome.ok
        /\ \A i \in 0..MaxIndex :
              call.prop = Decimal(i) =>
                  /\ Len(heap) = call.objects + 1
                  /\ outcome.val = Ref(Len(heap))
                  /\ InstanceAt(heap[Len(heap)], Position(i))
                  /\ Since = <<Derived("nth", TheCollection.locator,
                                       Locator(Append(TheCollection.locator.steps,
                                                      Position(i))))>>
        /\ NotDigits(call.prop) =>
              /\ Len(heap) = call.objects
              /\ Since = <<>>
              /\ outcome.val = OrdinaryProperty(call.prop)

\* nth(2) and then collection[2]: two instances, alike
C21_Witness ==
    /\ call.op = "get" /\ call.prop = Decimal(2)
    /\ Len(heap) = 3
    /\ log[1].op = "nth" /\ log[1].to = heap[2].locator
    /\ heap[3] = heap[2]
    /\ outcome = Ok(Ref(3))

\* collection[-1] gave undefined, and no instance was made
C21_NegativeKeyReached ==
    /\ call.op = "get" /\ call.prop = JStr(<<"-", "1">>)
    /\ outcome = Ok(Undefined)
    /\ Len(heap) = 1

\* collection.count through the Proxy gave the method
C21_MethodKeyReached ==
    /\ call.op = "get" /\ call.prop = JStr(COUNT)
    /\ outcome.val.t = "function"

\* the elements the locator of obj stands for in the region as it is
ElementOf(obj) == Resolve(obj.locator.steps, 1, dom.elements)

\* the object at ref is what a call of op on the collection returned
ReturnedBy(ref, op) ==
    /\ heap[ref].kind = "component"
    /\ \E i \in 1..Len(log) : log[i].op = op /\ log[i].to = heap[ref].locator

\* where element x stands in the region
Place(x) == CHOOSE k \in 1..Len(dom.elements) : dom.elements[k] = x

\* C22: in a region of n >= 1 elements, what first() returned stands for
\* the element nth(0) stands for, what last() returned for the element
\* nth(n - 1) stands for with n the count when the instance is used, and
\* instances at different positions for different elements in region
\* order; an action on the instance acts on that element.
C22_FirstLastByPosition ==
    LET n == Len(dom.elements) IN
    /\ n >= 1 =>
          \A ref \in DOMAIN heap :
              /\ ReturnedBy(ref, "first") => ElementOf(heap[ref]) = <<dom.elements[1]>>
              /\ ReturnedBy(ref, "last") => ElementOf(heap[ref]) = <<dom.elements[n]>>
              /\ (ReturnedBy(ref, "nth") /\ LastStep(heap[ref].locator).index = 0) =>
                    ElementOf(heap[ref]) = <<dom.elements[1]>>
              /\ (ReturnedBy(ref, "nth") /\ LastStep(heap[ref].locator).index = n - 1) =>
                    ElementOf(heap[ref]) = <<dom.elements[n]>>
    /\ \A a, b \in DOMAIN heap :
          (/\ ReturnedBy(a, "nth") /\ ReturnedBy(b, "nth")
           /\ LastStep(heap[a].locator).index < LastStep(heap[b].locator).index
           /\ LastStep(heap[b].locator).index < n) =>
              /\ Len(ElementOf(heap[a])) = 1 /\ Len(ElementOf(heap[b])) = 1
              /\ Place(ElementOf(heap[a])[1]) < Place(ElementOf(heap[b])[1])
    /\ (call.op = "click" /\ Since[1].region = dom.elements /\ n >= 1) =>
          /\ ReturnedBy(call.this.at, "first") => outcome = Ok(JNum(dom.elements[1]))
          /\ ReturnedBy(call.this.at, "last") => outcome = Ok(JNum(dom.elements[n]))

\* a click on what last() returned acted on the second of two elements
C22_Witness ==
    /\ call.op = "click" /\ ReturnedBy(call.this.at, "last")
    /\ Since[1].region = <<2, 3>> /\ dom.elements = <<2, 3>>
    /\ outcome = Ok(JNum(3))

\* nth(0) and nth(2) of three elements
C22_TwoPositionsReached ==
    /\ Len(heap) = 3 /\ dom.elements = Upto(3)
    /\ ReturnedBy(2, "nth") /\ ReturnedBy(3, "nth")
    /\ ElementOf(heap[2]) = <<1>> /\ ElementOf(heap[3]) = <<3>>

\* first() and nth(0) of the same region
C22_FirstAndNthReached ==
    /\ Len(heap) = 3 /\ dom.elements = <<2, 3>>
    /\ ReturnedBy(2, "first") /\ ReturnedBy(3, "nth")
    /\ ElementOf(heap[2]) = <<2>> /\ ElementOf(heap[3]) = <<2>>

\* the filter calls made so far, as positions in log
Filtered == {i \in 1..Len(log) : log[i].op = "filter"}

\* C23: filter returns another collection, over the capability narrowed by
\* the options, with the child type, config and page of the original, and
\* leaves the original as it was: its later calls go by its own capability.
C23_FilterLeavesOriginal ==
    /\ call.op = "filter" =>
          /\ outcome.ok
          /\ outcome.val = Ref(call.objects + 1)
          /\ outcome.val # Ref(1)
          /\ Len(heap) = call.objects + 1
          /\ LET new == heap[outcome.val.at] IN
                /\ new.kind = "collection"
                /\ new.locator =
                      Locator(Append(PageLocator(ITEM_SELECTOR).steps,
                                     [op |-> "filter", options |-> call.options]))
                /\ new.ComponentClass = TheCollection.ComponentClass
                /\ new.config = TheCollection.config
                /\ new.page = TheCollection.page
          /\ Asked(Since) = {}
    /\ Filtered # {} =>
          /\ TheCollection.kind = "collection"
          /\ TheCollection.locator = PageLocator(ITEM_SELECTOR)
          /\ TheCollection.ComponentClass = "ItemComponent"
          /\ TheCollection.page = PLAYWRIGHT_PAGE
          /\ \A j \in 1..Len(log) :
                log[j].op \in {"count", "nth", "first", "last", "filter"} =>
                    log[j].on = PageLocator(ITEM_SELECTOR)
          /\ (call.op = "count" /\ Since[1].region = dom.elements) =>
                outcome = Ok(JNum(Len(dom.elements)))

\* after a filter that matches one element of three, count() on the
\* original gave three
C23_Witness ==
    /\ call.op = "count"
    /\ Len(log) = 2 /\ log[1].op = "filter"
    /\ log[1].to.steps[2].options.hasText = {2}
    /\ heap[2].kind = "collection"
    /\ Since[1].region = Upto(3)
    /\ outcome = Ok(JNum(3))

\* what the filtered collection stands for is narrower than the original
C23_NarrowedReached ==
    /\ call.op = "filter" /\ dom.elements = Upto(3)
    /\ Resolve(heap[2].locator.steps, 1, dom.elements) = <<1, 3>>
    /\ Resolve(heap[1].locator.steps, 1, dom.elements) = <<1, 2, 3>>

====
